---- MODULE Spec2Model ----
(***************************************************************************)
(* HackTheCloud25 CTF manager: variable resolution, state probing and the  *)
(* provisioning lifecycle (src/lib/challenge.py, src/lib/terraform_manager *)
(* .py, src/lib/credential_manager.py, src/ctf-manager.py).                *)
(*                                                                         *)
(* Strings are sequences of atoms.  The atoms "$", "{", "}", "." and the   *)
(* whitespace atoms are single characters; every other atom stands for a   *)
(* block of characters that holds none of those.                           *)
(***************************************************************************)
EXTENDS Integers, Sequences, FiniteSets, TLC

VARIABLES
    probe,      \* SpecProbe: the inputs of one probe and its result
    rv,         \* SpecResolve: the inputs of one resolution and its result
    call,       \* SpecCreds, SpecValidate: the inputs of one call and its result
    world,      \* Spec: what is installed, the environment, the files on disk
    terraform_dir,  \* Spec: per challenge, whether <dir>/.terraform exists
    resources,  \* Spec: per challenge, the resources in the tool's state
    tfvars,     \* Spec: per challenge, the terraform.tfvars file
    op,         \* Spec: the operation the manager is running or ran last
    batch       \* Spec: the batch command (deploy-provider, destroy-all) in progress

ext == <<terraform_dir, resources, tfvars>>
life == <<world, terraform_dir, resources, tfvars, op, batch>>
vars == <<probe, rv, call, world, terraform_dir, resources, tfvars, op, batch>>

(***************************************************************************)
(* Python string helpers                                                   *)
(***************************************************************************)

\* str.startswith(prefix)
startswith(s, prefix) ==
    /\ Len(s) >= Len(prefix)
    /\ SubSeq(s, 1, Len(prefix)) = prefix

\* str.endswith(suffix)
endswith(s, suffix) ==
    /\ Len(s) >= Len(suffix)
    /\ SubSeq(s, Len(s) - Len(suffix) + 1, Len(s)) = suffix

\* the whitespace atoms str.strip() removes
Whitespace == {" ", "\n"}

RECURSIVE lstrip(_)
lstrip(s) ==
    IF s # <<>> /\ Head(s) \in Whitespace THEN lstrip(Tail(s)) ELSE s

RECURSIVE rstrip(_)
rstrip(s) ==
    IF s # <<>> /\ s[Len(s)] \in Whitespace
    THEN rstrip(SubSeq(s, 1, Len(s) - 1))
    ELSE s

\* str.strip()
strip(s) == rstrip(lstrip(s))

\* `phrase in text`, for a text made of message atoms
contains(text, phrase) == \E i \in 1..Len(text) : text[i] = phrase

(***************************************************************************)
(* ChallengeStatus                                                         *)
(***************************************************************************)
NOT_DEPLOYED == "not_deployed"
DEPLOYING == "deploying"
DEPLOYED == "deployed"
DESTROYING == "destroying"
FAILED == "failed"
UNKNOWN == "unknown"

ChallengeStatus == {NOT_DEPLOYED, DEPLOYING, DEPLOYED, DESTROYING, FAILED, UNKNOWN}

(***************************************************************************)
(* Outcome of one subprocess.run call: the process exited (code, stdout,   *)
(* stderr), subprocess.TimeoutExpired, FileNotFoundError (no binary), or   *)
(* some other exception.                                                   *)
(***************************************************************************)
Exited(code, out, err) == [kind |-> "exit", code |-> code, stdout |-> out, stderr |-> err]
TimedOut == [kind |-> "timeout", code |-> 0, stdout |-> <<>>, stderr |-> <<>>]
NoBinary == [kind |-> "notfound", code |-> 0, stdout |-> <<>>, stderr |-> <<>>]
OtherError == [kind |-> "error", code |-> 0, stdout |-> <<>>, stderr |-> <<>>]

\* the two phrases of `state list` stderr the prober knows
NoStateFile == "No state file was found"
FailedLoad == "Failed to load state"

\* variant: the output of `state list` is tested without strip()
get_status_NoStrip(hasDir, tfdir, o) ==
    IF ~hasDir THEN [status |-> UNKNOWN, calls |-> 0]
    ELSE IF ~tfdir THEN [status |-> NOT_DEPLOYED, calls |-> 0]
    ELSE IF o.kind = "exit" THEN
        IF o.code = 0 THEN
            IF o.stdout # <<>>
            THEN [status |-> DEPLOYED, calls |-> 1]
            ELSE [status |-> NOT_DEPLOYED, calls |-> 1]
        ELSE IF contains(o.stderr, NoStateFile) \/ contains(o.stderr, FailedLoad)
            THEN [status |-> NOT_DEPLOYED, calls |-> 1]
            ELSE [status |-> UNKNOWN, calls |-> 1]
    ELSE [status |-> UNKNOWN, calls |-> 1]

\* variant: a state list that exits with 0 means deployed
get_status_ExitCode(hasDir, tfdir, o) ==
    IF ~hasDir THEN [status |-> UNKNOWN, calls |-> 0]
    ELSE IF ~tfdir THEN [status |-> NOT_DEPLOYED, calls |-> 0]
    ELSE IF o.kind = "exit" THEN
        IF o.code = 0 THEN [status |-> DEPLOYED, calls |-> 1]
        ELSE IF contains(o.stderr, NoStateFile) \/ contains(o.stderr, FailedLoad)
            THEN [status |-> NOT_DEPLOYED, calls |-> 1]
            ELSE [status |-> UNKNOWN, calls |-> 1]
    ELSE [status |-> UNKNOWN, calls |-> 1]

\* Challenge.get_status_from_terraform_state: the status, and how many
\* `terraform state list` calls were made.  hasDir: full_directory_path is
\* set; tfdir: <dir>/.terraform exists; o: the outcome of the call, read
\* only when the call is made.
get_status_from_terraform_state(hasDir, tfdir, o) ==
    IF ~hasDir THEN [status |-> UNKNOWN, calls |-> 0]
    ELSE IF ~tfdir THEN [status |-> NOT_DEPLOYED, calls |-> 0]
    ELSE IF o.kind = "exit" THEN
        IF o.code = 0 THEN
            IF strip(o.stdout) # <<>>
            THEN [status |-> DEPLOYED, calls |-> 1]
            ELSE [status |-> NOT_DEPLOYED, calls |-> 1]
        ELSE IF contains(o.stderr, NoStateFile) \/ contains(o.stderr, FailedLoad)
            THEN [status |-> NOT_DEPLOYED, calls |-> 1]
            ELSE [status |-> UNKNOWN, calls |-> 1]
    ELSE [status |-> UNKNOWN, calls |-> 1]

\* str.split('\n'): the pieces between the newlines
RECURSIVE split_lines(_)
split_lines(s) ==
    IF \A i \in 1..Len(s) : s[i] # "\n" THEN <<s>>
    ELSE LET i == CHOOSE k \in 1..Len(s) :
                      s[k] = "\n" /\ \A j \in 1..(k - 1) : s[j] # "\n"
         IN <<SubSeq(s, 1, i - 1)>> \o split_lines(SubSeq(s, i + 1, Len(s)))

\* [line.strip() for line in stdout.split('\n') if line.strip()]
resource_lines(stdout) ==
    LET lines == split_lines(stdout)
    IN [i \in {k \in DOMAIN lines : strip(lines[k]) # <<>>} |-> strip(lines[i])]

\* a state information dictionary: whether it has the key 'resource_count'
\* and its value, and how many `terraform state list` calls were made
StateInfo(has_count, count, calls) ==
    [has_count |-> has_count, resource_count |-> count, calls |-> calls]

\* variant: every piece of the split output counts as a resource
get_state_info_AllLines(hasDir, tfdir, o) ==
    IF ~hasDir THEN StateInfo(FALSE, 0, 0)
    ELSE IF ~tfdir THEN StateInfo(TRUE, 0, 0)
    ELSE IF o.kind = "exit" THEN
        IF o.code = 0
        THEN StateInfo(TRUE, Len(split_lines(o.stdout)), 1)
        ELSE StateInfo(TRUE, 0, 1)
    ELSE StateInfo(FALSE, 0, 1)

\* TerraformManager.get_state_info.  hasDir, tfdir, o as for the prober.
get_state_info(hasDir, tfdir, o) ==
    IF ~hasDir THEN StateInfo(FALSE, 0, 0)
    ELSE IF ~tfdir THEN StateInfo(TRUE, 0, 0)
    ELSE IF o.kind = "exit" THEN
        IF o.code = 0
        THEN StateInfo(TRUE, Cardinality(DOMAIN resource_lines(o.stdout)), 1)
        ELSE StateInfo(TRUE, 0, 1)
    ELSE StateInfo(FALSE, 0, 1)

\* validate_challenge_deployment: state_info.get('resource_count', 0) > 0
resources_deployed(state_info) ==
    (IF state_info.has_count THEN state_info.resource_count ELSE 0) > 0

(***************************************************************************)
(* Python values: a declared variable value, a credential, an output value *)
(***************************************************************************)
PyStr(s) == [t |-> "str", s |-> s, n |-> 0]
PyBool(b) == [t |-> "bool", s |-> <<>>, n |-> IF b THEN 1 ELSE 0]
PyInt(n) == [t |-> "int", s |-> <<>>, n |-> n]
\* a dict, carried with the text str() gives for it
PyDict(text) == [t |-> "dict", s |-> text, n |-> 0]
PyNone == [t |-> "none", s |-> <<>>, n |-> 0]

\* the digits of a natural number
RECURSIVE digits(_)
digits(n) ==
    IF n < 10 THEN <<ToString(n)>> ELSE digits(n \div 10) \o <<ToString(n % 10)>>

\* str(v)
str(v) ==
    CASE v.t = "str" -> v.s
      [] v.t = "bool" -> IF v.n = 1 THEN <<"T", "r", "u", "e">>
                                   ELSE <<"F", "a", "l", "s", "e">>
      [] v.t = "int" -> IF v.n < 0 THEN <<"-">> \o digits(0 - v.n) ELSE digits(v.n)
      [] v.t = "dict" -> v.s
      [] OTHER -> <<"None">>

\* truth value of v in `if v:`
truthy(v) ==
    CASE v.t = "str" -> v.s # <<>>
      [] v.t = "bool" -> v.n = 1
      [] v.t = "int" -> v.n # 0
      [] v.t = "dict" -> v.s # <<"{}">>
      [] OTHER -> FALSE

\* variant: the text is split on its last "." (str.rsplit('.', 1))
split1_Last(s) ==
    IF \E i \in 1..Len(s) : s[i] = "."
    THEN LET i == CHOOSE j \in 1..Len(s) :
                      s[j] = "." /\ \A k \in (j + 1)..Len(s) : s[k] # "."
         IN <<SubSeq(s, 1, i - 1), SubSeq(s, i + 1, Len(s))>>
    ELSE <<s>>

\* str.split('.', 1)
split1(s) ==
    IF \E i \in 1..Len(s) : s[i] = "."
    THEN LET i == CHOOSE j \in 1..Len(s) :
                      s[j] = "." /\ \A k \in 1..(j - 1) : s[k] # "."
         IN <<SubSeq(s, 1, i - 1), SubSeq(s, i + 1, Len(s))>>
    ELSE <<s>>

\* f"${{{dependency}}}"
token(dependency) == <<"$", "{">> \o dependency \o <<"}">>

(***************************************************************************)
(* TerraformManager                                                        *)
(***************************************************************************)

\* one entry of the record of subprocesses started: the command and the
\* challenge whose working directory it ran in
Cmd(cmd, name) == [cmd |-> cmd, name |-> name]

\* variant: a timed-out command counts as run
_run_terraform_command_TimeoutOk(o) ==
    IF o.kind = "exit"
    THEN [success |-> o.code = 0, stdout |-> o.stdout, stderr |-> o.stderr]
    ELSE IF o.kind = "timeout"
    THEN [success |-> TRUE, stdout |-> <<>>, stderr |-> <<>>]
    ELSE [success |-> FALSE, stdout |-> <<>>, stderr |-> <<"Error">>]

\* TerraformManager._run_terraform_command: (success, stdout, stderr) of a
\* captured command from the outcome of subprocess.run
_run_terraform_command(o) ==
    IF o.kind = "exit"
    THEN [success |-> o.code = 0, stdout |-> o.stdout, stderr |-> o.stderr]
    ELSE IF o.kind = "timeout"
    THEN [success |-> FALSE, stdout |-> <<>>, stderr |-> <<"Command timed out">>]
    ELSE [success |-> FALSE, stdout |-> <<>>, stderr |-> <<"Error">>]

\* variant: apply and destroy always run with the terminal inherited
interactive_Always(command, auto_approve) == command \in {"apply", "destroy"}

\* `('apply' in command or 'destroy' in command) and '-auto-approve' not in command`
interactive(command, auto_approve) ==
    command \in {"apply", "destroy"} /\ ~auto_approve

\* TerraformManager._run_terraform_command with its two modes: a command
\* that is interactive runs without capture and returns no text when the
\* process exits; any other command is captured.  The handlers of a
\* timeout and of another exception are common to both modes.
_run_terraform_command_mode(command, auto_approve, o) ==
    LET mode == IF interactive(command, auto_approve) THEN "interactive" ELSE "captured"
        r == IF mode = "interactive" /\ o.kind = "exit"
             THEN [success |-> o.code = 0, stdout |-> <<>>, stderr |-> <<>>]
             ELSE _run_terraform_command(o)
    IN [success |-> r.success, stdout |-> r.stdout, stderr |-> r.stderr, mode |-> mode]

\* The text `terraform output -json` prints is carried parsed: nothing
\* ("empty"), text json.loads rejects ("malformed"), a JSON value that is no
\* object ("nonobject"), or an object ("object") whose entries map an output
\* name to [isObj, hasValue, value]: whether the entry is itself an object,
\* whether it has a 'value' key, and that value.
EmptyDoc == [kind |-> "empty", entries |-> <<>>]
MalformedDoc == [kind |-> "malformed", entries |-> <<>>]
NonObjectDoc == [kind |-> "nonobject", entries |-> <<>>]
ObjectDoc(entries) == [kind |-> "object", entries |-> entries]

Entry(isObj, hasValue, value) == [isObj |-> isObj, hasValue |-> hasValue, value |-> value]

raw_output == <<"raw_output">>

\* TerraformManager.get_outputs(challenge, 'json'): success, the mapping of
\* output names to values, whether an exception left the method, and how
\* many `terraform output` calls were made.  hasDir: full_directory_path is
\* set; o: the outcome of the call, its stdout a parsed text as above.
Failure(calls) == [success |-> FALSE, outputs |-> <<>>, raised |-> FALSE, calls |-> calls]

get_outputs(hasDir, o) ==
    IF ~hasDir THEN Failure(0)
    ELSE LET r == _run_terraform_command(o)
             doc == r.stdout
         IN IF ~r.success THEN Failure(1)
            ELSE IF doc.kind = "empty"
            THEN [success |-> TRUE, outputs |-> (raw_output :> PyStr(<<>>)),
                  raised |-> FALSE, calls |-> 1]
            ELSE IF doc.kind = "malformed" THEN Failure(1)
            ELSE IF doc.kind = "nonobject"
                    \/ \E k \in DOMAIN doc.entries : ~doc.entries[k].isObj
            \* outputs.items() or v.get(...) raises AttributeError
            THEN [success |-> FALSE, outputs |-> <<>>, raised |-> TRUE, calls |-> 1]
            ELSE [success |-> TRUE,
                  outputs |-> [k \in DOMAIN doc.entries |->
                                 IF doc.entries[k].hasValue
                                 THEN doc.entries[k].value
                                 ELSE PyDict(<<"{'sensitive': False}">>)],
                  raised |-> FALSE, calls |-> 1]

(***************************************************************************)
(* Challenge: variable resolution                                          *)
(***************************************************************************)

\* a challenge as the configuration declares it: config.get('provider'),
\* whether 'directory', 'backend_config' and 'web_content' are set, and the
\* declared variables in declaration order
Descriptor(provider, directory, backend_config, web_content, variables) ==
    [provider |-> provider, directory |-> directory,
     backend_config |-> backend_config, web_content |-> web_content,
     variables |-> variables]

\* ConfigLoader.get_challenge_config(name) is not None: the challenges
\* mapping has the name (an entry with an empty mapping counts as absent)
configured(challenges, name) == name \in DOMAIN challenges

\* Challenge._resolve_challenge_dependency.  challenges: the configured
\* descriptors; tfdir: which configured challenges have a .terraform
\* directory; sl, out: the outcomes of the `state list` and `output` calls,
\* each read only when the call is made.  Gives the value and the commands
\* started, in order.
unresolved(dependency, log) ==
    [value |-> PyStr(token(dependency)), log |-> log, raised |-> FALSE]

\* variant: only a status of not_deployed stops the resolution
is_deployed_NotAbsent(status) == status # NOT_DEPLOYED

\* `dependency_challenge.get_status_from_terraform_state() != DEPLOYED` is false
is_deployed(status) == status = DEPLOYED

\* variant: a missing output is read with dict.get
select_output_Get(got, output_name, dependency, log) ==
    IF ~got.success THEN unresolved(dependency, log)
    ELSE [value |-> PyStr(str(IF output_name \in DOMAIN got.outputs
                              THEN got.outputs[output_name] ELSE PyNone)),
          log |-> log, raised |-> FALSE]

\* the value the resolution gives from what get_outputs returned
select_output(got, output_name, dependency, log) ==
    IF ~got.success \/ output_name \notin DOMAIN got.outputs
    THEN unresolved(dependency, log)
    ELSE [value |-> PyStr(str(got.outputs[output_name])), log |-> log, raised |-> FALSE]

\* variant: the lookup initialises the working directory of the target
_resolve_challenge_dependency_Deploying(dependency, challenges, tfdir, sl, out) ==
    LET parts == split1(dependency)
    IN IF Len(parts) # 2 THEN unresolved(dependency, <<>>)
       ELSE
       LET challenge_name == parts[1]
           output_name == parts[2]
       IN IF ~configured(challenges, challenge_name) THEN unresolved(dependency, <<>>)
          ELSE
          LET d == challenges[challenge_name]
              st == get_status_from_terraform_state(d.directory, tfdir[challenge_name], sl)
              log1 == IF st.calls = 1
                      THEN <<Cmd("init", challenge_name), Cmd("state list", challenge_name)>>
                      ELSE <<>>
          IN IF ~is_deployed(st.status) THEN unresolved(dependency, log1)
             ELSE
             LET got == get_outputs(d.directory, out)
                 log2 == IF got.calls = 1
                         THEN log1 \o <<Cmd("output", challenge_name)>>
                         ELSE log1
             IN \* `except Exception` covers what get_outputs raises
                IF got.raised THEN unresolved(dependency, log2)
                ELSE select_output(got, output_name, dependency, log2)

\* variant: the lookup asks the target a second time
_resolve_challenge_dependency_Twice(dependency, challenges, tfdir, sl, out) ==
    LET parts == split1(dependency)
    IN IF Len(parts) # 2 THEN unresolved(dependency, <<>>)
       ELSE
       LET challenge_name == parts[1]
           output_name == parts[2]
       IN IF ~configured(challenges, challenge_name) THEN unresolved(dependency, <<>>)
          ELSE
          LET d == challenges[challenge_name]
              st == get_status_from_terraform_state(d.directory, tfdir[challenge_name], sl)
              log1 == IF st.calls = 1 THEN <<Cmd("state list", challenge_name)>> ELSE <<>>
          IN IF ~is_deployed(st.status) THEN unresolved(dependency, log1)
             ELSE
             LET got == get_outputs(d.directory, out)
                 log2 == IF got.calls = 1
                         THEN log1 \o <<Cmd("output", challenge_name)>> \o log1
                                   \o <<Cmd("output", challenge_name)>>
                         ELSE log1
             IN \* `except Exception` covers what get_outputs raises
                IF got.raised THEN unresolved(dependency, log2)
                ELSE select_output(got, output_name, dependency, log2)

\* Challenge._resolve_challenge_dependency: the value, and the commands
\* started in the working directory of the target
_resolve_challenge_dependency(dependency, challenges, tfdir, sl, out) ==
    LET parts == split1(dependency)
    IN IF Len(parts) # 2 THEN unresolved(dependency, <<>>)
       ELSE
       LET challenge_name == parts[1]
           output_name == parts[2]
       IN IF ~configured(challenges, challenge_name) THEN unresolved(dependency, <<>>)
          ELSE
          LET d == challenges[challenge_name]
              st == get_status_from_terraform_state(d.directory, tfdir[challenge_name], sl)
              log1 == IF st.calls = 1 THEN <<Cmd("state list", challenge_name)>> ELSE <<>>
          IN IF ~is_deployed(st.status) THEN unresolved(dependency, log1)
             ELSE
             LET got == get_outputs(d.directory, out)
                 log2 == IF got.calls = 1
                         THEN log1 \o <<Cmd("output", challenge_name)>>
                         ELSE log1
             IN \* `except Exception` covers what get_outputs raises
                IF got.raised THEN unresolved(dependency, log2)
                ELSE select_output(got, output_name, dependency, log2)

\* var_mapping of _resolve_variable_value
var_mapping ==
    (<<"AZURE_SUBSCRIPTION_ID">> :> "subscription_id") @@
    (<<"AZURE_TENANT_ID">> :> "tenant_id") @@
    (<<"AZURE_CLIENT_ID">> :> "client_id") @@
    (<<"AZURE_CLIENT_SECRET">> :> "client_secret") @@
    (<<"AWS_ACCESS_KEY_ID">> :> "access_key_id") @@
    (<<"AWS_SECRET_ACCESS_KEY">> :> "secret_access_key") @@
    (<<"GCP_PROJECT_ID">> :> "project_id") @@
    (<<"GCP_REGION">> :> "region") @@
    (<<"GCP_USER_EMAIL">> :> "user_email")

\* os.getenv(name): None when the variable is not set
getenv(env, name) == IF name \in DOMAIN env THEN PyStr(env[name]) ELSE PyNone

\* a value returned with no subprocess started
resolved(value) == [value |-> value, log |-> <<>>, raised |-> FALSE]

\* variant: a text that starts with "${" is taken for a reference
is_reference_Prefix(s) == startswith(s, <<"$", "{">>)

\* value.startswith('${') and value.endswith('}')
is_reference(s) == startswith(s, <<"$", "{">>) /\ endswith(s, <<"}">>)

\* variant: the environment is asked before the credentials
resolve_simple_EnvFirst(var_name, value, provider_creds, env) ==
    IF truthy(getenv(env, var_name))
    THEN resolved(getenv(env, var_name))
    ELSE IF var_name \in DOMAIN var_mapping
            /\ var_mapping[var_name] \in DOMAIN provider_creds
    THEN resolved(provider_creds[var_mapping[var_name]])
    ELSE resolved(value)

\* variant: an environment variable that is set but empty is returned
resolve_simple_EnvIfSet(var_name, value, provider_creds, env) ==
    IF var_name \in DOMAIN var_mapping
       /\ var_mapping[var_name] \in DOMAIN provider_creds
    THEN resolved(provider_creds[var_mapping[var_name]])
    ELSE IF getenv(env, var_name) # PyNone
    THEN resolved(getenv(env, var_name))
    ELSE resolved(value)

\* the simple-reference part of _resolve_variable_value: the credentials
\* through var_mapping, then the environment, then the original value
resolve_simple(var_name, value, provider_creds, env) ==
    IF var_name \in DOMAIN var_mapping
       /\ var_mapping[var_name] \in DOMAIN provider_creds
    THEN resolved(provider_creds[var_mapping[var_name]])
    ELSE IF truthy(getenv(env, var_name))
    THEN resolved(getenv(env, var_name))
    ELSE resolved(value)

\* Challenge._resolve_variable_value.  provider_creds maps credential
\* fields to values; env maps the names of the set environment variables
\* to their texts.
_resolve_variable_value(value, provider_creds, env, challenges, tfdir, sl, out) ==
    IF value.t # "str" THEN resolved(value)
    ELSE IF is_reference(value.s)
    THEN LET var_name == SubSeq(value.s, 3, Len(value.s) - 1)
         IN IF contains(var_name, ".")
            THEN _resolve_challenge_dependency(var_name, challenges, tfdir, sl, out)
            ELSE resolve_simple(var_name, value, provider_creds, env)
    ELSE resolved(value)

\* str.lower(), on the capital letters that occur in the texts of the model
lowercase == ("T" :> "t") @@ ("F" :> "f") @@ ("Y" :> "y") @@ ("E" :> "e") @@
             ("S" :> "s") @@ ("N" :> "n") @@ ("O" :> "o")

lower(s) == [i \in 1..Len(s) |-> IF s[i] \in DOMAIN lowercase THEN lowercase[s[i]] ELSE s[i]]

\* variant: a bool is rendered by str() alone
assignment_Str(key, resolved_value) ==
    [key |-> key,
     text |-> CASE resolved_value.t = "str" -> <<"\"">> \o resolved_value.s \o <<"\"">>
                [] resolved_value.t \in {"bool", "int"} -> str(resolved_value)
                [] OTHER -> <<"\"">> \o str(resolved_value) \o <<"\"">>]

\* one line `key = ...` of terraform.tfvars, as get_terraform_variables_file_content
\* renders a resolved value
assignment(key, resolved_value) ==
    [key |-> key,
     text |-> CASE resolved_value.t = "str" -> <<"\"">> \o resolved_value.s \o <<"\"">>
                [] resolved_value.t = "bool" -> lower(str(resolved_value))
                [] resolved_value.t = "int" -> str(resolved_value)
                [] OTHER -> <<"\"">> \o str(resolved_value) \o <<"\"">>]

\* CredentialManager.setup_environment_variables, the entry TF_VAR_<key> of
\* one declared variable: whether it is set, and its text.  A reference
\* is read from os.environ alone; any other value is passed as str(value).
tf_var(value, env) ==
    IF value.t = "str" /\ is_reference(value.s)
    THEN LET env_var == SubSeq(value.s, 3, Len(value.s) - 1)
         IN IF env_var \in DOMAIN env
            THEN [set |-> TRUE, text |-> env[env_var]]
            ELSE [set |-> FALSE, text |-> <<>>]
    ELSE [set |-> TRUE, text |-> str(value)]

(***************************************************************************)
(* CredentialManager (provider aws)                                        *)
(***************************************************************************)

\* dict.get(key, default)
get(d, key, default) == IF key \in DOMAIN d THEN d[key] ELSE default

\* os.getenv(name, default)
getenv_default(env, name, default) ==
    IF name \in DOMAIN env THEN PyStr(env[name]) ELSE default

\* CredentialManager.get_aws_credentials.  aws_config: the 'aws' mapping of
\* credentials.yaml (empty when there is none).
get_aws_credentials(aws_config, env) ==
    LET credentials ==
          ("profile" :> get(aws_config, "profile",
                            getenv_default(env, <<"AWS_PROFILE">>, PyStr(<<"default">>)))) @@
          ("region" :> get(aws_config, "region",
                           getenv_default(env, <<"AWS_DEFAULT_REGION">>,
                                          PyStr(<<"us-east-1">>)))) @@
          ("access_key_id" :> getenv(env, <<"AWS_ACCESS_KEY_ID">>)) @@
          ("secret_access_key" :> getenv(env, <<"AWS_SECRET_ACCESS_KEY">>)) @@
          ("session_token" :> getenv(env, <<"AWS_SESSION_TOKEN">>))
    IN [k \in {f \in DOMAIN credentials : credentials[f] # PyNone} |-> credentials[k]]

\* CredentialManager.get_provider_credentials, for the provider of the
\* modelled challenges; any other name raises ValueError, which
\* get_terraform_variables_file_content turns into no credentials
get_provider_credentials(provider, aws_config, env) ==
    IF provider = "aws" THEN get_aws_credentials(aws_config, env) ELSE <<>>

\* CredentialManager.validate_provider_credentials('aws'): is_valid
validate_provider_credentials(aws_config, env) ==
    LET creds == get_aws_credentials(aws_config, env)
    IN ~(~truthy(get(creds, "profile", PyNone))
         /\ ~(truthy(get(creds, "access_key_id", PyNone))
              /\ truthy(get(creds, "secret_access_key", PyNone))))

\* CredentialManager.check_terraform_installation: is_installed, from the
\* outcome of `terraform version`
check_terraform_installation(o) == o.kind = "exit" /\ o.code = 0

\* variant: readiness is the installation of the tool alone
validate_environment_ToolOnly(o, aws_config, env) ==
    check_terraform_installation(o)

\* CredentialManager.validate_environment: environment_ready
validate_environment(o, aws_config, env) ==
    check_terraform_installation(o) /\ validate_provider_credentials(aws_config, env)

\* the JSON text `az account show` prints: malformed, or an object with
\* the members id and tenantId (PyNone: no such member)
Account(id, tenantId) == [kind |-> "object", id |-> id, tenantId |-> tenantId]
MalformedAccount == [kind |-> "malformed", id |-> PyNone, tenantId |-> PyNone]

\* CredentialManager.get_azure_credentials: the credentials, and how many
\* `az account show` calls were made.  o: the outcome of the call, its
\* stdout a JSON text as above.
get_azure_credentials(azure_config, env, o) ==
    LET subscription_id == get(azure_config, "subscription_id",
                               getenv(env, <<"AZURE_SUBSCRIPTION_ID">>))
        tenant_id == get(azure_config, "tenant_id", getenv(env, <<"AZURE_TENANT_ID">>))
        query == ~truthy(subscription_id) \/ ~truthy(tenant_id)
        answered == query /\ o.kind = "exit" /\ o.code = 0 /\ o.stdout.kind = "object"
        credentials ==
          ("subscription_id" :> IF answered /\ ~truthy(subscription_id)
                                THEN o.stdout.id ELSE subscription_id) @@
          ("tenant_id" :> IF answered /\ ~truthy(tenant_id)
                          THEN o.stdout.tenantId ELSE tenant_id) @@
          ("client_id" :> get(azure_config, "client_id", getenv(env, <<"AZURE_CLIENT_ID">>))) @@
          ("client_secret" :> get(azure_config, "client_secret",
                                  getenv(env, <<"AZURE_CLIENT_SECRET">>))) @@
          ("location" :> get(azure_config, "location", PyStr(<<"East US">>)))
    IN [credentials |-> [k \in {f \in DOMAIN credentials : credentials[f] # PyNone}
                           |-> credentials[k]],
        calls |-> IF query THEN 1 ELSE 0]

\* what one `gcloud config get-value` call detects: the stripped stdout of
\* a call that exits with 0, unless it is empty or '(unset)'
detected_value(o) ==
    IF o.kind = "exit" /\ o.code = 0
       /\ strip(o.stdout) # <<>> /\ strip(o.stdout) # <<"(unset)">>
    THEN PyStr(strip(o.stdout)) ELSE PyNone

\* CredentialManager.get_gcp_credentials: the credentials, and how many
\* gcloud calls were made.  po, ao: the outcomes of the calls for the
\* project and for the account; an exception in the first ends the
\* detection.
get_gcp_credentials(gcp_config, env, po, ao) ==
    LET project_id == get(gcp_config, "project_id", getenv(env, <<"GCP_PROJECT_ID">>))
        user_email == get(gcp_config, "user_email", getenv(env, <<"GCP_USER_EMAIL">>))
        ask_project == ~truthy(project_id)
        ask_account == ~truthy(user_email) /\ (ask_project => po.kind = "exit")
        credentials ==
          ("project_id" :> IF ask_project /\ detected_value(po) # PyNone
                           THEN detected_value(po) ELSE project_id) @@
          ("region" :> get(gcp_config, "region",
                           getenv_default(env, <<"GCP_REGION">>, PyStr(<<"us-central1">>)))) @@
          ("user_email" :> IF ask_account /\ detected_value(ao) # PyNone
                           THEN detected_value(ao) ELSE user_email) @@
          ("credentials_file" :> get(gcp_config, "credentials_file",
                                     getenv(env, <<"GOOGLE_APPLICATION_CREDENTIALS">>)))
    IN [credentials |-> [k \in {f \in DOMAIN credentials : credentials[f] # PyNone}
                           |-> credentials[k]],
        calls |-> (IF ask_project THEN 1 ELSE 0) + (IF ask_account THEN 1 ELSE 0)]

(***************************************************************************)
(* Challenge: validation                                                   *)
(***************************************************************************)

\* variant: the working directory is not searched for main.tf
validation_errors_NoMainTf(name, d, f) ==
    (IF name = <<>> THEN {"name"} ELSE {})
    \cup (IF d.provider = "" THEN {"provider"}
          ELSE IF d.provider \notin {"aws", "azure", "gcp"} THEN {"invalid provider"}
          ELSE {})
    \cup (IF ~d.directory THEN {"directory"}
          ELSE IF ~f.dir THEN {"directory not found"} ELSE {})
    \cup (IF ~d.backend_config THEN {"backend config"}
          ELSE IF ~f.backend THEN {"backend config not found"} ELSE {})
    \cup (IF d.web_content /\ ~f.web THEN {"web content not found"} ELSE {})

\* Challenge.validate: the errors it collects.  d: the descriptor (provider
\* "" when none is declared); f: which of its paths exist on disk (dir,
\* backend, main_tf, web)
validation_errors(name, d, f) ==
    (IF name = <<>> THEN {"name"} ELSE {})
    \cup (IF d.provider = "" THEN {"provider"}
          ELSE IF d.provider \notin {"aws", "azure", "gcp"} THEN {"invalid provider"}
          ELSE {})
    \cup (IF ~d.directory THEN {"directory"}
          ELSE IF ~f.dir THEN {"directory not found"} ELSE {})
    \cup (IF ~d.backend_config THEN {"backend config"}
          ELSE IF ~f.backend THEN {"backend config not found"} ELSE {})
    \cup (IF d.directory /\ ~f.main_tf THEN {"main.tf not found"} ELSE {})
    \cup (IF d.web_content /\ ~f.web THEN {"web content not found"} ELSE {})

\* Challenge.validate: is_valid, len(errors) == 0
validate(name, d, f) == validation_errors(name, d, f) = {}

(***************************************************************************)
(* Inputs                                                                  *)
(***************************************************************************)
MaxOut == 2
MaxErr == 2
MaxParts == 3

SeqsUpTo(S, n) == UNION {[1..k -> S] : k \in 0..n}

StdoutAtoms == {"\n", "r"}
StderrAtoms == {NoStateFile, FailedLoad, "Error"}

\* every outcome of `terraform state list` within the bounds
ProbeOutcomes ==
    {Exited(c, out, err) : c \in {0, 1},
                           out \in SeqsUpTo(StdoutAtoms, MaxOut),
                           err \in SeqsUpTo(StderrAtoms, MaxErr)}
    \cup {TimedOut, NoBinary, OtherError}

\* no call was made
NoCall == [kind |-> "nocall", code |-> 0, stdout |-> <<>>, stderr |-> <<>>]

\* the outcomes of `terraform state list` a resolution is run against
StateListOutcomes ==
    {Exited(0, <<"r", "\n">>, <<>>), Exited(0, <<>>, <<>>),
     Exited(1, <<>>, <<NoStateFile>>), Exited(1, <<>>, <<"Error">>),
     TimedOut, NoBinary}

X == <<"x">>
OUT == <<"out">>
OUT_X == <<"out", ".", "x">>
KEY == <<"AWS_ACCESS_KEY_ID">>
GCP_REGION == <<"GCP_REGION">>
S3CR3T == <<"s3cr3t">>

OutputEntries ==
    {Entry(TRUE, TRUE, PyStr(S3CR3T)), Entry(TRUE, TRUE, PyBool(TRUE)),
     Entry(TRUE, TRUE, PyStr(token(OUT_X))),
     Entry(TRUE, FALSE, PyNone), Entry(FALSE, FALSE, PyNone)}

OutputDocs ==
    {EmptyDoc, MalformedDoc, NonObjectDoc}
    \cup {ObjectDoc(e) : e \in UNION {[K -> OutputEntries] : K \in SUBSET {OUT, OUT_X}}}

\* the outcomes of `terraform output -json` a resolution is run against
OutputOutcomes ==
    {Exited(0, d, <<>>) : d \in OutputDocs}
    \cup {Exited(1, EmptyDoc, <<"Error">>), TimedOut, NoBinary}

\* dotted names of up to MaxParts parts
Segments == {<<>>, X, OUT, KEY}

RECURSIVE join(_)
join(parts) ==
    IF Len(parts) = 1 THEN parts[1]
    ELSE parts[1] \o <<".">> \o join(Tail(parts))

Bodies == {join(p) : p \in SeqsUpTo(Segments, MaxParts) \ {<<>>}}

Prefixes == {<<>>, <<"$", "{">>, <<"x", "$", "{">>}
Suffixes == {<<>>, <<"}">>}

\* the declared values a resolution is run on
Values ==
    {PyStr(pre \o b \o post) : pre \in Prefixes, b \in Bodies, post \in Suffixes}
    \cup {PyStr(token(X \o <<".">> \o raw_output))}
    \cup {PyBool(TRUE), PyBool(FALSE), PyInt(42)}
    \cup {PyStr(token(GCP_REGION))}

\* credentials of provider aws, the provider of the challenge a resolution
\* is run for
CredentialSets ==
    {<<>>, ("access_key_id" :> PyStr(<<"cv">>)), ("access_key_id" :> PyStr(<<>>)),
     ("region" :> PyStr(<<"us-east-1">>))}

Environments ==
    {k @@ x : k \in {<<>>, (KEY :> <<>>), (KEY :> <<"ev">>)},
              x \in {<<>>, (X :> <<"ev">>)}}

\* the configurations a resolution is run against: challenge x not
\* configured, configured without a directory, or with one
Configurations ==
    {<<>>} \cup {(X :> Descriptor("aws", d, TRUE, FALSE, <<>>)) : d \in BOOLEAN}

(***************************************************************************)
(* The configuration and the surroundings of the lifecycle specification   *)
(***************************************************************************)
MaxRes == 1

DB_PASS == <<"db_pass">>

\* the name TerraformManager.apply and destroy give the long timeout
CHALLENGE_04 == <<"challenge-04-aws-only">>

Y == CHALLENGE_04
W == <<"w">>
Z == <<"z">>

PEER == <<"peer">>
ACTIVE == <<"enabled">>
COUNT == <<"count">>
NOTE == <<"note">>
OWN == <<"own">>

\* the reference "${<name>.out}" to the output `out` of a challenge
ref(name) == PyStr(token(name \o <<".">> \o OUT))

\* a challenges.yaml: x (aws) has no variables; y (aws, named
\* challenge-04-aws-only) declares db_pass = "${x.out}"; w (azure) names no
\* directory; z is not configured
Linear ==
    (X :> Descriptor("aws", TRUE, TRUE, FALSE, <<>>)) @@
    (Y :> Descriptor("aws", TRUE, TRUE, FALSE,
                     <<[name |-> DB_PASS, value |-> ref(X)]>>)) @@
    (W :> Descriptor("azure", FALSE, TRUE, FALSE, <<>>))

\* a challenges.yaml whose challenges refer to each other: x declares
\* peer = "${<y>.out}", enabled = true, count = 3 and note with no value;
\* y declares db_pass = "${x.out}" and own, a reference to its own output
Cyclic ==
    (X :> Descriptor("aws", TRUE, TRUE, FALSE,
                     <<[name |-> PEER, value |-> ref(CHALLENGE_04)],
                       [name |-> ACTIVE, value |-> PyBool(TRUE)],
                       [name |-> COUNT, value |-> PyInt(3)],
                       [name |-> NOTE, value |-> PyNone]>>)) @@
    (Y :> Descriptor("aws", TRUE, TRUE, FALSE,
                     <<[name |-> DB_PASS, value |-> ref(X)],
                       [name |-> OWN, value |-> ref(CHALLENGE_04)]>>)) @@
    (W :> Descriptor("azure", FALSE, TRUE, FALSE, <<>>))

\* the challenges.yaml of the run
Challenges == world.challenges

\* the order of the mapping 'challenges' of challenges.yaml
ChallengeOrder == <<X, Y, W>>

Configured == DOMAIN Challenges
OpNames == Configured \cup {Z}

\* the preparation scripts in each working directory
OneScript == (X :> {}) @@ (Y :> {"setup.sh"}) @@ (W :> {})
TwoScripts == (X :> {}) @@ (Y :> {"build.sh", "setup.sh"}) @@ (W :> {})
ScriptsPresent == world.scripts

\* the paths of a descriptor that exist on disk
Files(main_tf) == [dir |-> TRUE, backend |-> TRUE, main_tf |-> main_tf, web |-> FALSE]

\* the surroundings of a run: whether the terraform binary is installed,
\* the process environment, the mapping 'aws' of credentials.yaml, the
\* files of each challenge (main.tf of y may be missing), challenges.yaml,
\* the preparation scripts on disk, and whether writing terraform.tfvars
\* always works ("ok") or may raise ("flaky")
Worlds ==
    [installed : BOOLEAN,
     env : {<<>>, (<<"AWS_PROFILE">> :> <<>>)},
     aws_config : {<<>>},
     files : {(X :> Files(TRUE)) @@ (Y :> Files(m)) @@ (W :> Files(FALSE)) : m \in BOOLEAN},
     challenges : {Linear},
     scripts : {OneScript},
     disk : {"ok"}]

\* the surroundings of a run on the challenges that refer to each other:
\* the tool is installed, the default profile is used, every file exists,
\* and a write of terraform.tfvars may raise
CyclicWorlds ==
    [installed : {TRUE},
     env : {<<>>},
     aws_config : {<<>>},
     files : {(X :> Files(TRUE)) @@ (Y :> Files(TRUE)) @@ (W :> Files(FALSE))},
     challenges : {Cyclic},
     scripts : {TwoScripts},
     disk : {"flaky"}]

NoFile == [exists |-> FALSE, lines |-> <<>>]

\* no prompt of a preparation script is being answered
NoAnswer == [script |-> "none", response |-> <<>>]

NewOp(kind, name, auto) ==
    [kind |-> kind, name |-> name, auto |-> auto, pc |-> "done", result |-> "none",
     log |-> <<>>, scripts |-> <<>>, probed |-> "none", sl |-> NoCall,
     trace |-> <<>>, calls |-> <<>>, answer |-> NoAnswer, var_file |-> "none",
     mode |-> "none"]

\* one step of an operation: what ran, whether it succeeded, how the
\* subprocess ended ("none": no subprocess), and the timeout it was given
Ev(step, ok, kind, timeout) == [step |-> step, ok |-> ok, kind |-> kind, timeout |-> timeout]

NoBatch ==
    [kind |-> "none", provider |-> "none", auto |-> FALSE, pc |-> "idle",
     phase |-> "call", formed |-> <<>>, queue |-> <<>>, attempted |-> <<>>,
     success_count |-> 0, result |-> "none", prompted |-> FALSE, answer |-> <<>>,
     probed |-> <<>>, results |-> <<>>, log |-> <<>>, calls |-> <<>>]

LifeIdle ==
    /\ world = [installed |-> FALSE, env |-> <<>>, aws_config |-> <<>>, files |-> <<>>,
                challenges |-> <<>>, scripts |-> <<>>, disk |-> "ok"]
    /\ terraform_dir = <<>>
    /\ resources = <<>>
    /\ tfvars = <<>>
    /\ op = NewOp("none", <<>>, FALSE)
    /\ batch = NoBatch

ProbeIdle ==
    [hasDir |-> FALSE, tfdir |-> FALSE, o |-> NoCall, done |-> TRUE,
     status |-> "none", calls |-> 0, deployed |-> FALSE, listed |-> 0]

CallIdle == [done |-> TRUE]

ResolveIdle ==
    [value |-> PyNone, creds |-> <<>>, env |-> <<>>, challenges |-> <<>>,
     tfdir |-> FALSE, done |-> TRUE, result |-> PyNone, raised |-> FALSE,
     log |-> <<>>, sl |-> NoCall, out |-> NoCall,
     line |-> [key |-> <<>>, text |-> <<>>],
     tf_var |-> [set |-> FALSE, text |-> <<>>]]

(***************************************************************************)
(* SpecProbe: the prober as a function of its inputs                       *)
(***************************************************************************)

\* a .terraform directory lives inside the working directory, so there is
\* none when the descriptor names no directory
ProbeInit ==
    /\ probe \in [hasDir : BOOLEAN, tfdir : BOOLEAN, o : ProbeOutcomes,
                  done : {FALSE}, status : {"none"}, calls : {0},
                  deployed : {FALSE}, listed : {0}]
    /\ probe.tfdir => probe.hasDir
    /\ rv = ResolveIdle
    /\ call = CallIdle
    /\ LifeIdle

ProbeStep ==
    /\ ~probe.done
    /\ LET r == get_status_from_terraform_state(probe.hasDir, probe.tfdir, probe.o)
           info == get_state_info(probe.hasDir, probe.tfdir, probe.o)
       IN probe' = [probe EXCEPT !.done = TRUE, !.status = r.status, !.calls = r.calls,
                                 !.deployed = resources_deployed(info),
                                 !.listed = info.calls]
    /\ UNCHANGED <<rv, call, life>>

SpecProbe == ProbeInit /\ [][ProbeStep]_vars

(***************************************************************************)
(* SpecResolve: the resolution of one declared variable, db_pass, as a     *)
(* function of the declared value, the credentials, the environment, the   *)
(* configuration and what the external tool answers                        *)
(***************************************************************************)

ResolveInit ==
    /\ probe = ProbeIdle
    /\ call = CallIdle
    /\ LifeIdle
    /\ \E value \in Values, creds \in CredentialSets, env \in Environments,
          challenges \in Configurations, tfdir \in BOOLEAN :
          /\ tfdir => (configured(challenges, X) /\ challenges[X].directory)
          /\ rv = [ResolveIdle EXCEPT !.value = value, !.creds = creds, !.env = env,
                                      !.challenges = challenges, !.tfdir = tfdir,
                                      !.done = FALSE]

ran(log, cmd) == \E i \in 1..Len(log) : log[i].cmd = cmd

\* The outcome of a call is drawn when the resolution reaches the call.
ResolveWith(sl, out) ==
    _resolve_variable_value(rv.value, rv.creds, rv.env, rv.challenges,
                            [n \in DOMAIN rv.challenges |-> rv.tfdir], sl, out)

ResolveStep ==
    /\ ~rv.done
    /\ \E sl \in IF ran(ResolveWith(NoCall, NoCall).log, "state list")
                 THEN StateListOutcomes ELSE {NoCall} :
       \E out \in IF ran(ResolveWith(sl, NoCall).log, "output")
                  THEN OutputOutcomes ELSE {NoCall} :
          LET r == ResolveWith(sl, out)
          IN rv' = [rv EXCEPT !.done = TRUE, !.result = r.value, !.raised = r.raised,
                              !.log = r.log, !.sl = sl, !.out = out,
                              !.line = assignment(DB_PASS, r.value),
                              !.tf_var = tf_var(rv.value, rv.env)]
    /\ UNCHANGED <<probe, call, life>>

SpecResolve == ResolveInit /\ [][ResolveStep]_vars

(***************************************************************************)
(* SpecCreds: the credentials of one provider as a function of the section *)
(* of credentials.yaml, the environment and what the provider's CLI        *)
(* answers                                                                 *)
(***************************************************************************)

\* per provider, the fields drawn in credentials.yaml and the environment
\* variables drawn in the environment
ConfigFields ==
    ("aws" :> {"profile", "access_key_id"}) @@
    ("azure" :> {"subscription_id", "tenant_id", "location"}) @@
    ("gcp" :> {"project_id", "user_email"})

EnvNames ==
    ("aws" :> {<<"AWS_PROFILE">>, <<"AWS_ACCESS_KEY_ID">>}) @@
    ("azure" :> {<<"AZURE_SUBSCRIPTION_ID">>, <<"AZURE_TENANT_ID">>}) @@
    ("gcp" :> {<<"GCP_PROJECT_ID">>, <<"GCP_USER_EMAIL">>})

\* every mapping of a subset of the keys to the values
Mappings(keys, values) == UNION {[K -> values] : K \in SUBSET keys}

AccountOutcomes ==
    {Exited(0, Account(PyStr(<<"id">>), PyStr(<<"tid">>)), <<>>),
     Exited(0, Account(PyNone, PyNone), <<>>),
     Exited(0, MalformedAccount, <<>>),
     Exited(1, MalformedAccount, <<"Error">>), TimedOut, NoBinary}

GcloudOutcomes ==
    {Exited(0, <<"gv", "\n">>, <<>>), Exited(0, <<"(unset)">>, <<>>),
     Exited(0, <<"\n">>, <<>>), Exited(1, <<>>, <<"Error">>), TimedOut}

CredsInit ==
    /\ probe = ProbeIdle
    /\ rv = ResolveIdle
    /\ LifeIdle
    /\ \E provider \in {"aws", "azure", "gcp"} :
       \E config \in Mappings(ConfigFields[provider], {PyStr(<<>>), PyStr(<<"cv">>)}),
          env \in Mappings(EnvNames[provider], {<<>>, <<"ev">>}),
          o \in IF provider = "azure" THEN AccountOutcomes
                ELSE IF provider = "gcp" THEN GcloudOutcomes ELSE {NoCall},
          ao \in IF provider = "gcp" THEN GcloudOutcomes ELSE {NoCall} :
          call = [provider |-> provider, config |-> config, env |-> env,
                  o |-> o, ao |-> ao, done |-> FALSE,
                  credentials |-> <<>>, calls |-> 0]

CredsStep ==
    /\ ~call.done
    /\ LET r == CASE call.provider = "aws" ->
                      [credentials |-> get_aws_credentials(call.config, call.env),
                       calls |-> 0]
                  [] call.provider = "azure" ->
                      get_azure_credentials(call.config, call.env, call.o)
                  [] OTHER ->
                      get_gcp_credentials(call.config, call.env, call.o, call.ao)
       IN call' = [call EXCEPT !.done = TRUE, !.credentials = r.credentials,
                               !.calls = r.calls]
    /\ UNCHANGED <<probe, rv, life>>

SpecCreds == CredsInit /\ [][CredsStep]_vars

(***************************************************************************)
(* SpecValidate: the validation of one descriptor as a function of its     *)
(* fields and of the paths that exist on disk                              *)
(***************************************************************************)

\* a path exists only when the descriptor declares it, and main.tf only
\* inside an existing working directory
ValidateInit ==
    /\ probe = ProbeIdle
    /\ rv = ResolveIdle
    /\ LifeIdle
    /\ \E name \in {<<>>, X}, provider \in {"", "aws", "azure", "gcp", "alibaba"},
          directory \in BOOLEAN, backend_config \in BOOLEAN, web_content \in BOOLEAN,
          f \in [dir : BOOLEAN, backend : BOOLEAN, main_tf : BOOLEAN, web : BOOLEAN] :
          /\ f.dir => directory
          /\ f.backend => backend_config
          /\ f.web => web_content
          /\ f.main_tf => f.dir
          /\ call = [name |-> name,
                     d |-> Descriptor(provider, directory, backend_config, web_content, <<>>),
                     f |-> f, done |-> FALSE, is_valid |-> FALSE, errors |-> {}]

ValidateStep ==
    /\ ~call.done
    /\ call' = [call EXCEPT !.done = TRUE,
                            !.is_valid = validate(call.name, call.d, call.f),
                            !.errors = validation_errors(call.name, call.d, call.f)]
    /\ UNCHANGED <<probe, rv, life>>

SpecValidate == ValidateInit /\ [][ValidateStep]_vars

(***************************************************************************)
(* SpecRun: one terraform command as a function of the command, the        *)
(* -auto-approve flag and the outcome of the subprocess                    *)
(***************************************************************************)

\* the commands TerraformManager builds; only apply and destroy take the flag
RunInit ==
    /\ probe = ProbeIdle
    /\ rv = ResolveIdle
    /\ LifeIdle
    /\ \E command \in {"init", "plan", "apply", "destroy", "output"},
          auto_approve \in BOOLEAN, o \in ProbeOutcomes :
          /\ auto_approve => command \in {"apply", "destroy"}
          /\ call = [command |-> command, auto_approve |-> auto_approve, o |-> o,
                     done |-> FALSE, mode |-> "none", success |-> FALSE,
                     stdout |-> <<>>, stderr |-> <<>>]

RunStep ==
    /\ ~call.done
    /\ LET r == _run_terraform_command_mode(call.command, call.auto_approve, call.o)
       IN call' = [call EXCEPT !.done = TRUE, !.mode = r.mode, !.success = r.success,
                               !.stdout = r.stdout, !.stderr = r.stderr]
    /\ UNCHANGED <<probe, rv, life>>

SpecRun == RunInit /\ [][RunStep]_vars

(***************************************************************************)
(* Spec: the manager's operations on the configured challenges             *)
(***************************************************************************)
Init ==
    /\ probe = ProbeIdle
    /\ call = CallIdle
    /\ rv = ResolveIdle
    /\ world \in Worlds
    /\ terraform_dir = [c \in Configured |-> FALSE]
    /\ resources = [c \in Configured |-> 0]
    /\ tfvars = [c \in Configured |-> NoFile]
    /\ op = NewOp("none", <<>>, FALSE)
    /\ batch = NoBatch

\* what `terraform state list` prints for n resources
RECURSIVE listing(_)
listing(n) == IF n = 0 THEN <<>> ELSE <<"r", "\n">> \o listing(n - 1)

\* the outcomes of a terraform command that is judged by its exit code
ToolOutcomes ==
    IF world.installed
    THEN {Exited(0, <<>>, <<>>), Exited(1, <<>>, <<"Error">>), TimedOut}
    ELSE {NoBinary}

\* the outcomes of `terraform state list` in the working directory of c
StateListFor(c) ==
    IF world.installed
    THEN {Exited(0, listing(resources[c]), <<>>), Exited(1, <<>>, <<"Error">>), TimedOut}
         \cup (IF resources[c] = 0 THEN {Exited(1, <<>>, <<NoStateFile>>)} ELSE {})
    ELSE {NoBinary}

\* the outcomes of `terraform output -json` in the working directory of c:
\* the output out = "s3cr3t" once c has resources
OutputFor(c) ==
    IF world.installed
    THEN {Exited(0, IF resources[c] > 0
                    THEN ObjectDoc(OUT :> Entry(TRUE, TRUE, PyStr(S3CR3T)))
                    ELSE ObjectDoc(<<>>), <<>>),
          Exited(1, EmptyDoc, <<"Error">>), TimedOut}
    ELSE {NoBinary}

\* the outcomes of `bash <script>`
ScriptOutcomes == {Exited(0, <<>>, <<>>), Exited(1, <<>>, <<"Error">>), TimedOut}

\* variant: a command that times out is left running
marks_Detached(c, o) ==
    IF o.kind = "timeout" THEN <<[ev |-> "start", cmd |-> c]>>
    ELSE <<[ev |-> "start", cmd |-> c], [ev |-> "end", cmd |-> c]>>

\* subprocess.run: the child is started and the caller blocks until it has
\* ended; on a timeout the child is killed and waited for before
\* TimeoutExpired is raised
marks(c, o) == <<[ev |-> "start", cmd |-> c], [ev |-> "end", cmd |-> c]>>

RECURSIVE chain(_)
chain(ss) == IF ss = <<>> THEN <<>> ELSE Head(ss) \o chain(Tail(ss))

\* one resolution with the calls it made: the first command of a lookup
\* is answered by sl, the second by out
Looked(r, sl, out) ==
    [value |-> r.value, log |-> r.log,
     calls |-> chain([i \in 1..Len(r.log) |->
                        marks(r.log[i], IF r.log[i].cmd = "state list" THEN sl ELSE out)])]

\* the results _resolve_variable_value can give for one declared value,
\* each call answered by the tool when the resolution reaches it
Resolutions(value, provider_creds) ==
    LET R(sl, out) == _resolve_variable_value(value, provider_creds, world.env,
                                              Challenges, terraform_dir, sl, out)
        dry == R(NoCall, NoCall)
    IN IF dry.log = <<>> THEN {Looked(dry, NoCall, NoCall)}
       ELSE LET target == dry.log[1].name
            IN UNION {IF ran(R(sl, NoCall).log, "output")
                      THEN {Looked(R(sl, out), sl, out) : out \in OutputFor(target)}
                      ELSE {Looked(R(sl, NoCall), sl, NoCall)} : sl \in StateListFor(target)}

\* the loop of Challenge.get_terraform_variables_file_content over the
\* declared variables: the assignment lines and the commands started
RECURSIVE variable_lines(_, _)
variable_lines(variables, provider_creds) ==
    IF variables = <<>> THEN {[lines |-> <<>>, log |-> <<>>, calls |-> <<>>]}
    ELSE {[lines |-> <<assignment(Head(variables).name, r.value)>> \o rest.lines,
           log |-> r.log \o rest.log, calls |-> r.calls \o rest.calls] :
             r \in Resolutions(Head(variables).value, provider_creds),
             rest \in variable_lines(Tail(variables), provider_creds)}

\* Challenge.get_terraform_variables_file_content for challenge c
get_terraform_variables_file_content(c) ==
    variable_lines(Challenges[c].variables,
                   get_provider_credentials(Challenges[c].provider,
                                            world.aws_config, world.env))

Finished(o, result) == [o EXCEPT !.pc = "done", !.result = result]

\* variant: every command gets the short timeout
timeout_for_Uniform(cmd, name) ==
    CASE cmd \in {"apply", "destroy"} -> 1200
      [] cmd \in {"init", "output"} -> 600
      [] cmd = "script" -> 300
      [] cmd = "version" -> 10
      [] cmd = "state list" -> 30
      [] OTHER -> 0

\* the timeout given to subprocess.run for a command in the working
\* directory of challenge `name` (0: the step starts no subprocess)
timeout_for(cmd, name) ==
    CASE cmd \in {"apply", "destroy"} -> IF name = CHALLENGE_04 THEN 2400 ELSE 1200
      [] cmd \in {"init", "output"} -> 600
      [] cmd = "script" -> 300
      [] cmd = "version" -> 10
      [] cmd = "state list" -> 30
      [] OTHER -> 0

\* variant: a destroy of destroy-all gets the flag the batch was started with
Callable_BatchFlag(kind, c, auto) ==
    IF batch.pc = "running"
    THEN /\ batch.phase = "call" /\ batch.queue # <<>> /\ c = Head(batch.queue)
         /\ kind = (IF batch.kind = "deploy_provider" THEN "deploy" ELSE "destroy")
         /\ auto = batch.auto
    ELSE TRUE

\* a single command may start when no batch runs; inside a batch the loop
\* calls deploy_challenge / destroy_challenge for the head of its queue
Callable(kind, c, auto) ==
    IF batch.pc = "running"
    THEN /\ batch.phase = "call" /\ batch.queue # <<>> /\ c = Head(batch.queue)
         /\ kind = (IF batch.kind = "deploy_provider" THEN "deploy" ELSE "destroy")
         /\ auto = (IF batch.kind = "destroy_all" THEN TRUE ELSE batch.auto)
    ELSE TRUE

\* the batch after the start of an operation: the loop waits for its call;
\* a single command is a new run of the program, with no batch
Called(c) ==
    IF batch.pc = "running"
    THEN [batch EXCEPT !.phase = "wait", !.queue = Tail(@), !.attempted = Append(@, c)]
    ELSE NoBatch

\* the answers `terraform state list` can give a probe of challenge c, when
\* the probe gets as far as asking
ProbeAnswers(c) ==
    IF Challenges[c].directory /\ terraform_dir[c] THEN StateListFor(c) ELSE {NoCall}

\* the probe at the head of an operation on challenge c, as events
Probed(c, o, r) ==
    [log |-> IF r.calls = 1 THEN <<Cmd("state list", c)>> ELSE <<>>,
     calls |-> IF r.calls = 1 THEN marks(Cmd("state list", c), o) ELSE <<>>,
     trace |-> <<Ev("probe", TRUE, o.kind, timeout_for(IF r.calls = 1 THEN "state list"
                                                       ELSE "none", c))>>]

\* variant: the probe initialises the working directory before it asks
Probe_Initialising(c) ==
    /\ op.pc = "done" /\ Callable("probe", c, FALSE)
    /\ \E o \in IF Challenges[c].directory THEN StateListFor(c) ELSE {NoCall} :
          LET r == get_status_from_terraform_state(Challenges[c].directory, TRUE, o)
          IN op' = [NewOp("probe", c, FALSE) EXCEPT
                      !.result = "success", !.probed = r.status, !.sl = o,
                      !.log = Probed(c, o, r).log,
                      !.calls = Probed(c, o, r).calls, !.trace = Probed(c, o, r).trace]
    /\ terraform_dir' = [terraform_dir EXCEPT ![c] = Challenges[c].directory]
    /\ batch' = Called(c)
    /\ UNCHANGED <<probe, rv, call, world, resources, tfvars>>

\* list_challenges / show_status: one probe of a configured challenge
Probe(c) ==
    /\ op.pc = "done" /\ Callable("probe", c, FALSE)
    /\ \E o \in IF Challenges[c].directory /\ terraform_dir[c] THEN StateListFor(c) ELSE {NoCall} :
          LET r == get_status_from_terraform_state(Challenges[c].directory, terraform_dir[c], o)
          IN op' = [NewOp("probe", c, FALSE) EXCEPT
                      !.result = "success", !.probed = r.status, !.sl = o,
                      !.log = Probed(c, o, r).log,
                      !.calls = Probed(c, o, r).calls, !.trace = Probed(c, o, r).trace]
    /\ batch' = Called(c)
    /\ UNCHANGED <<probe, rv, call, world, ext>>

\* variant: the destroy command is run whatever the probe says
DestroyStart_Always(c, auto) ==
    /\ op.pc = "done" /\ Callable("destroy", c, auto)
    /\ batch' = Called(c)
    /\ IF ~configured(Challenges, c)
       THEN op' = Finished([NewOp("destroy", c, auto) EXCEPT
                              !.trace = <<Ev("lookup", FALSE, "none", 0)>>], "failure")
       ELSE \E o \in IF Challenges[c].directory /\ terraform_dir[c]
                     THEN StateListFor(c) ELSE {NoCall} :
              LET r == get_status_from_terraform_state(Challenges[c].directory, terraform_dir[c], o)
                  started == [NewOp("destroy", c, auto) EXCEPT
                                !.probed = r.status, !.sl = o,
                                !.log = Probed(c, o, r).log,
                                !.calls = Probed(c, o, r).calls,
                                !.trace = <<Ev("lookup", TRUE, "none", 0)>>
                                          \o Probed(c, o, r).trace]
              IN op' = [started EXCEPT !.pc = "destroy"]
    /\ UNCHANGED <<probe, rv, call, world, ext>>

\* CTFManager.destroy_challenge up to the probe: the challenge is looked up
\* and probed; not_deployed ends the operation with success
DestroyStart(c, auto) ==
    /\ op.pc = "done" /\ Callable("destroy", c, auto)
    /\ batch' = Called(c)
    /\ IF ~configured(Challenges, c)
       THEN op' = Finished([NewOp("destroy", c, auto) EXCEPT
                              !.trace = <<Ev("lookup", FALSE, "none", 0)>>], "failure")
       ELSE \E o \in IF Challenges[c].directory /\ terraform_dir[c]
                     THEN StateListFor(c) ELSE {NoCall} :
              LET r == get_status_from_terraform_state(Challenges[c].directory, terraform_dir[c], o)
                  started == [NewOp("destroy", c, auto) EXCEPT
                                !.probed = r.status, !.sl = o,
                                !.log = Probed(c, o, r).log,
                                !.calls = Probed(c, o, r).calls,
                                !.trace = <<Ev("lookup", TRUE, "none", 0)>>
                                          \o Probed(c, o, r).trace]
              IN op' = IF r.status = NOT_DEPLOYED
                       THEN Finished(started, "success")
                       ELSE [started EXCEPT !.pc = "destroy"]
    /\ UNCHANGED <<probe, rv, call, world, ext>>

\* `-var-file` is added to the command when terraform.tfvars exists
passes(file) == IF file.exists THEN "passed" ELSE "omitted"

\* variant: destroy writes terraform.tfvars anew, as apply does
DestroyRun_Regenerating ==
    /\ op.kind = "destroy" /\ op.pc = "destroy"
    /\ LET c == op.name
       IN IF ~Challenges[c].directory
          THEN /\ op' = Finished([op EXCEPT !.trace = Append(@, Ev("destroy", FALSE, "none", 0))],
                                 "failure")
               /\ UNCHANGED <<resources, tfvars>>
          ELSE \E content \in get_terraform_variables_file_content(c), o \in ToolOutcomes :
                 LET r == _run_terraform_command_mode("destroy", op.auto, o)
                     file == [exists |-> TRUE, lines |-> content.lines]
                     logged == [op EXCEPT !.log = @ \o content.log \o <<Cmd("destroy", c)>>,
                                          !.calls = @ \o content.calls
                                                      \o marks(Cmd("destroy", c), o),
                                          !.mode = r.mode,
                                          !.var_file = passes(file),
                                          !.trace = Append(@, Ev("destroy", r.success, o.kind,
                                                                 timeout_for("destroy", c)))]
                 IN /\ tfvars' = [tfvars EXCEPT ![c] = file]
                    /\ op' = Finished(logged, IF r.success THEN "success" ELSE "failure")
                    /\ resources' = [resources EXCEPT ![c] = IF r.success THEN 0 ELSE @]
    /\ UNCHANGED <<probe, rv, call, world, terraform_dir, batch>>

\* variant: a destroy that fails is run again
DestroyRun_Retry ==
    /\ op.kind = "destroy" /\ op.pc = "destroy"
    /\ Len(op.log) < 4
    /\ LET c == op.name
       IN IF ~Challenges[c].directory
          THEN op' = Finished(op, "failure") /\ UNCHANGED resources
          ELSE \E o \in ToolOutcomes :
                 LET r == _run_terraform_command_mode("destroy", op.auto, o)
                     logged == [op EXCEPT !.log = @ \o <<Cmd("destroy", c)>>,
                                          !.calls = @ \o marks(Cmd("destroy", c), o),
                                          !.mode = r.mode,
                                          !.var_file = passes(tfvars[c]),
                                          !.trace = Append(@, Ev("destroy", r.success, o.kind,
                                                                 timeout_for("destroy", c)))]
                 IN /\ op' = IF r.success THEN Finished(logged, "success") ELSE logged
                    /\ resources' = [resources EXCEPT ![c] = IF r.success THEN 0 ELSE @]
    /\ UNCHANGED <<probe, rv, call, world, terraform_dir, tfvars, batch>>

\* TerraformManager.destroy and the rest of destroy_challenge: a failed or
\* timed-out destroy may have removed part of the resources
DestroyRun ==
    /\ op.kind = "destroy" /\ op.pc = "destroy"
    /\ LET c == op.name
       IN IF ~Challenges[c].directory
          THEN /\ op' = Finished([op EXCEPT !.trace = Append(@, Ev("destroy", FALSE, "none", 0))],
                                 "failure")
               /\ UNCHANGED resources
          ELSE \E o \in ToolOutcomes :
                 LET r == _run_terraform_command_mode("destroy", op.auto, o)
                     logged == [op EXCEPT !.log = @ \o <<Cmd("destroy", c)>>,
                                          !.calls = @ \o marks(Cmd("destroy", c), o),
                                          !.mode = r.mode,
                                          !.var_file = passes(tfvars[c]),
                                          !.trace = Append(@, Ev("destroy", r.success, o.kind,
                                                                 timeout_for("destroy", c)))]
                 IN IF r.success
                    THEN /\ op' = Finished(logged, "success")
                         /\ resources' = [resources EXCEPT ![c] = 0]
                    ELSE /\ op' = Finished(logged, "failure")
                         /\ \E n \in 0..resources[c] :
                              /\ (o.kind = "notfound") => n = resources[c]
                              /\ resources' = [resources EXCEPT ![c] = n]
    /\ UNCHANGED <<probe, rv, call, world, terraform_dir, tfvars, batch>>

\* variant: the descriptor is not validated
DeployStart_NoValidate(c, auto) ==
    /\ op.pc = "done" /\ Callable("deploy", c, auto)
    /\ batch' = Called(c)
    /\ op' = IF ~configured(Challenges, c)
             THEN Finished(NewOp("deploy", c, auto), "failure")
             ELSE [NewOp("deploy", c, auto) EXCEPT !.pc = "env"]
    /\ UNCHANGED <<probe, rv, call, world, ext>>

\* CTFManager.deploy_challenge up to the validation of the descriptor
DeployStart(c, auto) ==
    /\ op.pc = "done" /\ Callable("deploy", c, auto)
    /\ batch' = Called(c)
    /\ op' = IF ~configured(Challenges, c)
             THEN Finished([NewOp("deploy", c, auto) EXCEPT
                              !.trace = <<Ev("lookup", FALSE, "none", 0)>>], "failure")
             ELSE LET ok == validate(c, Challenges[c], world.files[c])
                      checked == [NewOp("deploy", c, auto) EXCEPT
                                    !.trace = <<Ev("lookup", TRUE, "none", 0),
                                                Ev("validate", ok, "none", 0)>>]
                  IN IF ok THEN [checked EXCEPT !.pc = "env"]
                     ELSE Finished(checked, "failure")
    /\ UNCHANGED <<probe, rv, call, world, ext>>

\* variant: the deploy goes on whatever the readiness check says
DeployEnv_NoGate ==
    /\ op.kind = "deploy" /\ op.pc = "env"
    /\ \E o \in ToolOutcomes :
          LET ready == validate_environment(o, world.aws_config, world.env)
          IN op' = [op EXCEPT !.log = @ \o <<Cmd("version", <<>>)>>,
                              !.calls = @ \o marks(Cmd("version", <<>>), o),
                              !.trace = Append(@, Ev("env", ready, o.kind,
                                                     timeout_for("version", op.name))),
                              !.pc = "init"]
    /\ UNCHANGED <<probe, rv, call, world, ext, batch>>

\* deploy_challenge: validate_environment (`terraform version` and the
\* credentials of the provider)
DeployEnv ==
    /\ op.kind = "deploy" /\ op.pc = "env"
    /\ \E o \in ToolOutcomes :
          LET ready == validate_environment(o, world.aws_config, world.env)
              logged == [op EXCEPT !.log = @ \o <<Cmd("version", <<>>)>>,
                                   !.calls = @ \o marks(Cmd("version", <<>>), o),
                                   !.trace = Append(@, Ev("env", ready, o.kind,
                                                          timeout_for("version", op.name)))]
          IN op' = IF ready
                   THEN [logged EXCEPT !.pc = "init"]
                   ELSE Finished(logged, "failure")
    /\ UNCHANGED <<probe, rv, call, world, ext, batch>>

\* common_prep_scripts of _detect_preparation_scripts
common_prep_scripts == <<"install_dependencies.sh", "setup.sh", "prepare.sh", "build.sh">>

\* CTFManager._detect_preparation_scripts
_detect_preparation_scripts(hasDir, present) ==
    IF ~hasDir THEN <<>>
    ELSE LET here(script) == script \in present
         IN SelectSeq(common_prep_scripts, here)

\* variant: a failed init does not end the deploy
DeployInit_GoOn ==
    /\ op.kind = "deploy" /\ op.pc = "init"
    /\ LET c == op.name
           d == Challenges[c]
       IN \E o \in ToolOutcomes :
            LET r == _run_terraform_command(o)
                detected == _detect_preparation_scripts(d.directory, ScriptsPresent[c])
            IN /\ op' = [op EXCEPT !.log = @ \o <<Cmd("init", c)>>,
                                   !.calls = @ \o marks(Cmd("init", c), o),
                                   !.trace = Append(@, Ev("init", r.success, o.kind,
                                                          timeout_for("init", c))),
                                   !.scripts = detected,
                                   !.pc = IF detected = <<>> THEN "apply" ELSE "prep"]
               /\ terraform_dir' = [terraform_dir EXCEPT ![c] = @ \/ r.success]
    /\ UNCHANGED <<probe, rv, call, world, resources, tfvars, batch>>

\* deploy_challenge: TerraformManager.init, then the detection of the
\* preparation scripts.  `terraform init` creates .terraform; a failed run
\* may have created it too.
DeployInit ==
    /\ op.kind = "deploy" /\ op.pc = "init"
    /\ LET c == op.name
           d == Challenges[c]
       IN IF ~d.directory \/ ~d.backend_config
          THEN /\ op' = Finished([op EXCEPT !.trace = Append(@, Ev("init", FALSE, "none", 0))],
                                 "failure")
               /\ UNCHANGED terraform_dir
          ELSE \E o \in ToolOutcomes :
                 LET r == _run_terraform_command(o)
                     logged == [op EXCEPT !.log = @ \o <<Cmd("init", c)>>,
                                          !.calls = @ \o marks(Cmd("init", c), o),
                                          !.trace = Append(@, Ev("init", r.success, o.kind,
                                                                 timeout_for("init", c)))]
                     detected == _detect_preparation_scripts(d.directory, ScriptsPresent[c])
                 IN IF r.success
                    THEN /\ op' = [logged EXCEPT !.scripts = detected,
                                                  !.pc = IF detected = <<>> THEN "apply"
                                                         ELSE "prep"]
                         /\ terraform_dir' = [terraform_dir EXCEPT ![c] = TRUE]
                    ELSE /\ op' = Finished(logged, "failure")
                         /\ \E b \in {terraform_dir[c], TRUE} :
                              /\ (o.kind = "notfound") => b = terraform_dir[c]
                              /\ terraform_dir' = [terraform_dir EXCEPT ![c] = b]
    /\ UNCHANGED <<probe, rv, call, world, resources, tfvars, batch>>

\* what the operator may type at the prompt of a preparation script;
\* INTERRUPT is Ctrl-C instead of an answer
INTERRUPT == <<"^C">>
ScriptResponses == {<<>>, <<"y">>, <<" ", "Y", "E", "S">>, <<"n">>, INTERRUPT}

\* variant: every answer confirms
confirms_Always(response) == TRUE

\* CTFManager._confirm_preparation_script:
\* `input(...).strip().lower() in ['', 'y', 'yes']`
confirms(response) == lower(strip(response)) \in {<<>>, <<"y">>, <<"y", "e", "s">>}

\* variant: a failed preparation script does not end the deploy
DeployPrep_GoOn ==
    /\ op.kind = "deploy" /\ op.pc = "prep"
    /\ LET script == Head(op.scripts)
           next(o) == [o EXCEPT !.scripts = Tail(@),
                                !.pc = IF Tail(op.scripts) = <<>> THEN "apply" ELSE "prep"]
           asked(response) == [op EXCEPT !.answer = [script |-> script,
                                                     response |-> response]]
       IN \E response \in ScriptResponses :
            IF response = INTERRUPT
            THEN op' = Finished([asked(response) EXCEPT
                                   !.trace = Append(@, Ev("prompt", FALSE, "none", 0))],
                                "interrupted")
            ELSE IF confirms(response)
            THEN \E o \in ScriptOutcomes :
                   LET ok == o.kind = "exit" /\ o.code = 0
                       logged == [asked(response) EXCEPT
                                            !.log = @ \o <<Cmd(script, op.name)>>,
                                            !.calls = @ \o marks(Cmd(script, op.name), o),
                                            !.trace = Append(@, Ev("script", ok, o.kind,
                                                                   timeout_for("script", op.name)))]
                   IN op' = next(logged)
            ELSE op' = next([asked(response) EXCEPT
                               !.trace = Append(@, Ev("skip", TRUE, "none", 0))])
    /\ UNCHANGED <<probe, rv, call, world, ext, batch>>

\* variant: an interrupt at the prompt skips the script
DeployPrep_InterruptDeclines ==
    /\ op.kind = "deploy" /\ op.pc = "prep"
    /\ LET script == Head(op.scripts)
           next(o) == [o EXCEPT !.scripts = Tail(@),
                                !.pc = IF Tail(op.scripts) = <<>> THEN "apply" ELSE "prep"]
           asked(response) == [op EXCEPT !.answer = [script |-> script,
                                                     response |-> response]]
       IN \E response \in ScriptResponses :
            IF response = INTERRUPT
            THEN op' = next([asked(response) EXCEPT
                               !.trace = Append(@, Ev("skip", TRUE, "none", 0))])
            ELSE IF confirms(response)
            THEN \E o \in ScriptOutcomes :
                   LET ok == o.kind = "exit" /\ o.code = 0
                       logged == [asked(response) EXCEPT
                                            !.log = @ \o <<Cmd(script, op.name)>>,
                                            !.calls = @ \o marks(Cmd(script, op.name), o),
                                            !.trace = Append(@, Ev("script", ok, o.kind,
                                                                   timeout_for("script", op.name)))]
                   IN op' = IF ok THEN next(logged) ELSE Finished(logged, "failure")
            ELSE op' = next([asked(response) EXCEPT
                               !.trace = Append(@, Ev("skip", TRUE, "none", 0))])
    /\ UNCHANGED <<probe, rv, call, world, ext, batch>>

\* _handle_preparation_scripts, one script of the loop: the prompt, and the
\* run of the script when it is confirmed.  An interrupt at the prompt
\* leaves deploy_challenge as KeyboardInterrupt.
DeployPrep ==
    /\ op.kind = "deploy" /\ op.pc = "prep"
    /\ LET script == Head(op.scripts)
           next(o) == [o EXCEPT !.scripts = Tail(@),
                                !.pc = IF Tail(op.scripts) = <<>> THEN "apply" ELSE "prep"]
           asked(response) == [op EXCEPT !.answer = [script |-> script,
                                                     response |-> response]]
       IN \E response \in ScriptResponses :
            IF response = INTERRUPT
            THEN op' = Finished([asked(response) EXCEPT
                                   !.trace = Append(@, Ev("prompt", FALSE, "none", 0))],
                                "interrupted")
            ELSE IF confirms(response)
            THEN \E o \in ScriptOutcomes :
                   LET ok == o.kind = "exit" /\ o.code = 0
                       logged == [asked(response) EXCEPT
                                            !.log = @ \o <<Cmd(script, op.name)>>,
                                            !.calls = @ \o marks(Cmd(script, op.name), o),
                                            !.trace = Append(@, Ev("script", ok, o.kind,
                                                                   timeout_for("script", op.name)))]
                   IN op' = IF ok THEN next(logged) ELSE Finished(logged, "failure")
            ELSE op' = next([asked(response) EXCEPT
                               !.trace = Append(@, Ev("skip", TRUE, "none", 0))])
    /\ UNCHANGED <<probe, rv, call, world, ext, batch>>

\* deploy_challenge: TerraformManager.apply.  The content of
\* terraform.tfvars is generated and written; when the write raises, apply
\* logs a warning and goes on with the file as it was.  Then `terraform
\* apply` runs; a failed or timed-out apply may have changed part of the
\* resources.
DeployApply ==
    /\ op.kind = "deploy" /\ op.pc = "apply"
    /\ LET c == op.name
       IN \E content \in get_terraform_variables_file_content(c),
             written \in IF world.disk = "ok" THEN {TRUE} ELSE BOOLEAN,
             o \in ToolOutcomes :
            LET r == _run_terraform_command_mode("apply", op.auto, o)
                file == IF written THEN [exists |-> TRUE, lines |-> content.lines]
                        ELSE tfvars[c]
                logged == [op EXCEPT !.answer = NoAnswer,
                                     !.log = @ \o content.log \o <<Cmd("apply", c)>>,
                                     !.calls = @ \o content.calls \o marks(Cmd("apply", c), o),
                                     !.mode = r.mode,
                                     !.var_file = passes(file),
                                     !.trace = @ \o <<Ev("tfvars", written, "none", 0),
                                                      Ev("apply", r.success, o.kind,
                                                         timeout_for("apply", c))>>]
            IN /\ tfvars' = [tfvars EXCEPT ![c] = file]
               /\ op' = IF r.success THEN [logged EXCEPT !.pc = "outputs"]
                        ELSE Finished(logged, "failure")
               /\ \E n \in 0..MaxRes :
                    /\ (o.kind = "notfound") => n = resources[c]
                    /\ resources' = [resources EXCEPT ![c] = n]
    /\ UNCHANGED <<probe, rv, call, world, terraform_dir, batch>>

\* variant: a deploy whose outputs cannot be retrieved reports failure
DeployOutputs_Strict ==
    /\ op.kind = "deploy" /\ op.pc = "outputs"
    /\ \E o \in OutputFor(op.name) :
          LET got == get_outputs(Challenges[op.name].directory, o)
              logged == [op EXCEPT !.log = @ \o <<Cmd("output", op.name)>>,
                                   !.calls = @ \o marks(Cmd("output", op.name), o),
                                   !.trace = Append(@, Ev("output", got.success, o.kind,
                                                          timeout_for("output", op.name)))]
          IN op' = Finished(logged, IF got.success THEN "success" ELSE "failure")
    /\ UNCHANGED <<probe, rv, call, world, ext, batch>>

\* deploy_challenge: get_outputs after a successful apply; its result only
\* decides whether the outputs are shown
DeployOutputs ==
    /\ op.kind = "deploy" /\ op.pc = "outputs"
    /\ \E o \in OutputFor(op.name) :
          LET got == get_outputs(Challenges[op.name].directory, o)
              logged == [op EXCEPT !.log = @ \o <<Cmd("output", op.name)>>,
                                   !.calls = @ \o marks(Cmd("output", op.name), o),
                                   !.trace = Append(@, Ev("output", got.success, o.kind,
                                                          timeout_for("output", op.name)))]
          IN op' = Finished(logged, IF got.raised THEN "error" ELSE "success")
    /\ UNCHANGED <<probe, rv, call, world, ext, batch>>

\* CTFManager.get_challenges_by_provider: the configured challenges of a
\* provider, in the order of challenges.yaml
get_challenges_by_provider(provider) ==
    LET matches(c) == Challenges[c].provider = provider
    IN SelectSeq(ChallengeOrder, matches)

\* variant: the batch succeeds when any challenge succeeded
all_succeeded_Any(success_count, total) == success_count > 0

\* `success_count == len(challenges)`, the result of a batch
all_succeeded(success_count, total) == success_count = total

\* CTFManager.deploy_provider_challenges up to its loop
DeployProviderStart(provider, auto) ==
    /\ op.pc = "done" /\ batch.pc # "running"
    /\ LET challenges == get_challenges_by_provider(provider)
           formed == [NoBatch EXCEPT !.kind = "deploy_provider", !.provider = provider,
                                     !.auto = auto, !.formed = challenges,
                                     !.queue = challenges]
       IN batch' = IF challenges = <<>>
                   THEN [formed EXCEPT !.pc = "done", !.result = "failure"]
                   ELSE [formed EXCEPT !.pc = "running"]
    /\ op' = NewOp("none", <<>>, FALSE)
    /\ UNCHANGED <<probe, rv, call, world, ext>>

\* variant: every challenge not known to be absent is destroyed
to_destroy_NotAbsent(status) == status # NOT_DEPLOYED

\* the filter of destroy_all_challenges
to_destroy(status) == status = DEPLOYED

\* variant: a bare "y" confirms too
confirmed_all_Short(response) == lower(response) \in {<<"y", "e", "s">>, <<"y">>}

\* `response.lower() != 'yes'` cancels
confirmed_all(response) == lower(response) = <<"y", "e", "s">>

\* what the operator may type at the prompt of destroy-all
Responses == {<<"y", "e", "s">>, <<"Y", "E", "S">>, <<"y">>, <<"n", "o">>, <<>>,
              <<" ", "y", "e", "s">>, INTERRUPT}

\* CTFManager.destroy_all_challenges up to its loop: every configured
\* challenge is probed, the deployed ones form the batch, and without
\* auto-approve the operator is asked
DestroyAllStart(auto) ==
    /\ op.pc = "done" /\ batch.pc # "running"
    /\ \E ox \in ProbeAnswers(X), oy \in ProbeAnswers(Y), ow \in ProbeAnswers(W) :
            LET os == (X :> ox) @@ (Y :> oy) @@ (W :> ow)
                r(c) == get_status_from_terraform_state(Challenges[c].directory,
                                                        terraform_dir[c], os[c])
                called(c) == r(c).calls = 1
                calls == SelectSeq(ChallengeOrder, called)
                deployed(c) == to_destroy(r(c).status)
                deployed_challenges == SelectSeq(ChallengeOrder, deployed)
                prompted == deployed_challenges # <<>> /\ ~auto
                formed == [NoBatch EXCEPT
                             !.kind = "destroy_all", !.auto = auto,
                             !.probed = [c \in Configured |-> r(c).status],
                             !.log = [i \in 1..Len(calls) |-> Cmd("state list", calls[i])],
                             !.calls = chain([i \in 1..Len(calls) |->
                                                marks(Cmd("state list", calls[i]), os[calls[i]])]),
                             !.formed = deployed_challenges,
                             !.queue = deployed_challenges]
            IN \E response \in IF prompted THEN Responses ELSE {<<>>} :
                 batch' = IF deployed_challenges = <<>>
                          THEN [formed EXCEPT !.pc = "done", !.result = "success"]
                          ELSE IF ~prompted
                          THEN [formed EXCEPT !.pc = "running"]
                          ELSE IF response = INTERRUPT
                          THEN [formed EXCEPT !.pc = "done", !.result = "interrupted",
                                              !.prompted = TRUE, !.answer = response]
                          ELSE IF ~confirmed_all(response)
                          THEN [formed EXCEPT !.pc = "done", !.result = "failure",
                                              !.prompted = TRUE, !.answer = response]
                          ELSE [formed EXCEPT !.pc = "running",
                                              !.prompted = TRUE, !.answer = response]
    /\ op' = NewOp("none", <<>>, FALSE)
    /\ UNCHANGED <<probe, rv, call, world, ext>>

\* the loops of deploy_provider_challenges and destroy_all_challenges: the
\* call for one challenge has returned and is tallied; the loop goes on to
\* the next challenge or ends.  An interrupt or an error that leaves the
\* call leaves the batch too.
BatchTally ==
    /\ batch.pc = "running" /\ batch.phase = "wait" /\ op.pc = "done"
    /\ LET count == batch.success_count + (IF op.result = "success" THEN 1 ELSE 0)
           tallied == [batch EXCEPT !.log = @ \o op.log, !.calls = @ \o op.calls,
                                   !.results = Append(@, op.result)]
       IN batch' = IF op.result \in {"interrupted", "error"}
                   THEN [tallied EXCEPT !.pc = "done", !.result = op.result]
                   ELSE IF batch.queue = <<>>
                   THEN [tallied EXCEPT !.pc = "done", !.success_count = count,
                                        !.result = IF all_succeeded(count, Len(batch.formed))
                                                   THEN "success" ELSE "failure"]
                   ELSE [tallied EXCEPT !.phase = "call", !.success_count = count]
    /\ UNCHANGED <<probe, rv, call, world, ext, op>>

Providers == {"aws", "azure", "gcp"}

Next ==
    \/ \E c \in Configured : Probe(c)
    \/ \E c \in OpNames, auto \in BOOLEAN : DestroyStart(c, auto)
    \/ DestroyRun
    \/ \E c \in OpNames, auto \in BOOLEAN : DeployStart(c, auto)
    \/ DeployEnv
    \/ DeployInit
    \/ DeployPrep
    \/ DeployApply
    \/ DeployOutputs
    \/ \E provider \in Providers, auto \in BOOLEAN : DeployProviderStart(provider, auto)
    \/ \E auto \in BOOLEAN : DestroyAllStart(auto)
    \/ BatchTally

Spec == Init /\ [][Next]_vars

(***************************************************************************)
(* SpecCyclic: single operations on challenges that refer to each other    *)
(* and to themselves, with two preparation scripts                         *)
(***************************************************************************)
CyclicInit ==
    /\ probe = ProbeIdle
    /\ call = CallIdle
    /\ rv = ResolveIdle
    /\ world \in CyclicWorlds
    /\ terraform_dir = [c \in Configured |-> FALSE]
    /\ resources = [c \in Configured |-> 0]
    /\ tfvars = [c \in Configured |-> NoFile]
    /\ op = NewOp("none", <<>>, FALSE)
    /\ batch = NoBatch

CyclicNext ==
    \/ \E c \in Configured : Probe(c)
    \/ \E c \in Configured, auto \in BOOLEAN : DestroyStart(c, auto)
    \/ DestroyRun
    \/ \E c \in Configured, auto \in BOOLEAN : DeployStart(c, auto)
    \/ DeployEnv
    \/ DeployInit
    \/ DeployPrep
    \/ DeployApply
    \/ DeployOutputs

SpecCyclic == CyclicInit /\ [][CyclicNext]_vars

(***************************************************************************)
(* SpecCleanup: single operations, and the removal of the working files of *)
(* a challenge between two operations                                      *)
(***************************************************************************)

\* TerraformManager.cleanup_terraform_files(challenge): .terraform, the lock
\* file and terraform.tfvars are removed from the working directory.  The
\* state of the tool is kept in the backend the backend-config file names,
\* so the resources it lists stay.  Without a working directory the call
\* returns False and removes nothing.
Cleanup(c) ==
    /\ op.pc = "done" /\ batch.pc # "running"
    /\ configured(Challenges, c)
    /\ IF Challenges[c].directory
       THEN /\ terraform_dir' = [terraform_dir EXCEPT ![c] = FALSE]
            /\ tfvars' = [tfvars EXCEPT ![c] = NoFile]
            /\ op' = Finished(NewOp("cleanup", c, FALSE), "success")
       ELSE /\ UNCHANGED <<terraform_dir, tfvars>>
            /\ op' = Finished(NewOp("cleanup", c, FALSE), "failure")
    /\ batch' = NoBatch
    /\ UNCHANGED <<probe, rv, call, world, resources>>

CleanupNext ==
    \/ \E c \in Configured : Cleanup(c)
    \/ \E c \in Configured, auto \in BOOLEAN : DestroyStart(c, auto)
    \/ DestroyRun
    \/ \E c \in Configured, auto \in BOOLEAN : DeployStart(c, auto)
    \/ DeployEnv
    \/ DeployInit
    \/ DeployPrep
    \/ DeployApply
    \/ DeployOutputs

SpecCleanup == Init /\ [][CleanupNext]_vars

(***************************************************************************)
(* Properties of the prober (SpecProbe)                                    *)
(***************************************************************************)
Produced == {NOT_DEPLOYED, DEPLOYED, UNKNOWN}

\* the error text holds one of the two no-state phrases
NoStatePhrase(err) ==
    \E i \in 1..Len(err) : err[i] \in {NoStateFile, FailedLoad}

\* C8 as stated: tracking directory absent => not_deployed with no call;
\* otherwise one `state list` call: non-empty output => deployed, empty
\* output with zero exit => not_deployed, non-zero exit with a no-state
\* phrase => not_deployed, any other non-zero exit, timeout or missing
\* binary => unknown; the result is never deploying, destroying or failed.
C8_ProberTable ==
    probe.done =>
      /\ probe.status \in Produced
      /\ IF ~probe.tfdir
         THEN probe.status = NOT_DEPLOYED /\ probe.calls = 0
         ELSE /\ probe.calls = 1
              /\ probe.status =
                   IF probe.o.kind = "exit" /\ probe.o.stdout # <<>> THEN DEPLOYED
                   ELSE IF probe.o.kind = "exit" /\ probe.o.code = 0 THEN NOT_DEPLOYED
                   ELSE IF probe.o.kind = "exit" /\ NoStatePhrase(probe.o.stderr)
                   THEN NOT_DEPLOYED
                   ELSE UNKNOWN

\* C8 amended: no working directory in the descriptor => unknown with no
\* call; else tracking directory absent => not_deployed with no call;
\* otherwise one `state list` call: zero exit with output that is not only
\* whitespace => deployed, zero exit with empty or whitespace-only output
\* => not_deployed, non-zero exit with a no-state phrase => not_deployed
\* (whatever the output), any other non-zero exit, timeout, missing binary
\* or other error => unknown; the result is never deploying, destroying or
\* failed.
C8_ProberTableAmended ==
    probe.done =>
      /\ probe.status \in Produced
      /\ IF ~probe.hasDir
         THEN probe.status = UNKNOWN /\ probe.calls = 0
         ELSE IF ~probe.tfdir
         THEN probe.status = NOT_DEPLOYED /\ probe.calls = 0
         ELSE /\ probe.calls = 1
              /\ probe.status =
                   IF probe.o.kind = "exit" /\ probe.o.code = 0
                   THEN IF \E i \in 1..Len(probe.o.stdout) :
                              probe.o.stdout[i] \notin Whitespace
                        THEN DEPLOYED ELSE NOT_DEPLOYED
                   ELSE IF probe.o.kind = "exit" /\ NoStatePhrase(probe.o.stderr)
                   THEN NOT_DEPLOYED
                   ELSE UNKNOWN

\* a probe whose `state list` exits with zero and prints one blank line
C8_Witness ==
    /\ probe.done
    /\ probe.hasDir /\ probe.tfdir
    /\ probe.o = Exited(0, <<"\n">>, <<>>)
    /\ probe.status = NOT_DEPLOYED
    /\ probe.calls = 1

(***************************************************************************)
(* Properties of resolution (SpecResolve)                                  *)
(***************************************************************************)

\* the declared value is a text that starts with "${" and ends with "}"
Wrapped(v) ==
    /\ v.t = "str"
    /\ Len(v.s) >= 3
    /\ v.s[1] = "$" /\ v.s[2] = "{" /\ v.s[Len(v.s)] = "}"

\* the TOKEN of a wrapped value
Tok(v) == [i \in 1..(Len(v.s) - 3) |-> v.s[i + 2]]

Dotted(v) == Wrapped(v) /\ \E i \in 1..Len(Tok(v)) : Tok(v)[i] = "."

Simple(v) == Wrapped(v) /\ ~Dotted(v)

\* the position of the first "." of a dotted TOKEN
FirstDot(v) == CHOOSE i \in 1..Len(Tok(v)) :
                   Tok(v)[i] = "." /\ \A k \in 1..(i - 1) : Tok(v)[k] # "."

\* the challenge name A and the output name of a reference ${A.out}
RefChallenge(v) == [i \in 1..(FirstDot(v) - 1) |-> Tok(v)[i]]
RefOutput(v) == [i \in 1..(Len(Tok(v)) - FirstDot(v)) |-> Tok(v)[i + FirstDot(v)]]

\* the status a probe of the referenced challenge gives in the resolution
\* recorded in rv (rv.sl is the answer of `state list`, if it was asked)
RefStatus ==
    get_status_from_terraform_state(rv.challenges[RefChallenge(rv.value)].directory,
                                    rv.tfdir, rv.sl).status

\* what output retrieval against the referenced challenge gives
RefOutputs == get_outputs(TRUE, rv.out)

\* C1: a declared value that is not a text, or a text that does not both
\* start with "${" and end with "}", is returned unchanged, whatever the
\* credentials, the environment and the external tool's state are.
C1_LiteralIdentity ==
    (rv.done /\ ~Wrapped(rv.value)) => (rv.result = rv.value /\ ~rv.raised)

\* a text that embeds a reference, resolved with the embedded name set in
\* the environment and the referenced challenge configured
C1_Witness ==
    /\ rv.done
    /\ rv.value = PyStr(<<"x", "$", "{">> \o KEY \o <<"}">>)
    /\ KEY \in DOMAIN rv.env /\ rv.env[KEY] = <<"ev">>
    /\ "access_key_id" \in DOMAIN rv.creds
    /\ rv.tfdir
    /\ rv.result = rv.value

\* C2: for ${A.out}, when A is not configured or A's probed status is not
\* `deployed`, the result is the original token and `output` is never run.
C2_NotDeployedUnresolved ==
    (rv.done /\ Dotted(rv.value)
       /\ (~configured(rv.challenges, RefChallenge(rv.value)) \/ RefStatus # DEPLOYED))
    => (rv.result = rv.value /\ ~ran(rv.log, "output"))

\* ${x.out} with x configured and initialised, `state list` answering with
\* an empty list
C2_Witness ==
    /\ rv.done
    /\ rv.value = PyStr(token(X \o <<".">> \o OUT))
    /\ configured(rv.challenges, X)
    /\ rv.sl = Exited(0, <<>>, <<>>)
    /\ RefStatus = NOT_DEPLOYED
    /\ rv.result = rv.value
    /\ rv.log = <<Cmd("state list", X)>>

\* C3: for ${A.out} with A probed `deployed`, when output retrieval fails or
\* its mapping has no key `out`, the result is the original token.
C3_MissingOutputUnresolved ==
    (rv.done /\ Dotted(rv.value)
       /\ configured(rv.challenges, RefChallenge(rv.value))
       /\ RefStatus = DEPLOYED
       /\ (~RefOutputs.success \/ RefOutput(rv.value) \notin DOMAIN RefOutputs.outputs))
    => rv.result = rv.value

\* ${x.out} with x deployed and exposing only the output out.x
C3_Witness ==
    /\ rv.done
    /\ rv.value = PyStr(token(X \o <<".">> \o OUT))
    /\ configured(rv.challenges, X)
    /\ RefStatus = DEPLOYED
    /\ rv.out = Exited(0, ObjectDoc(OUT_X :> Entry(TRUE, TRUE, PyStr(S3CR3T))), <<>>)
    /\ rv.result = rv.value
    /\ ran(rv.log, "output")

\* the success case of C4
C4_Resolved ==
    (rv.done /\ Dotted(rv.value)
       /\ configured(rv.challenges, RefChallenge(rv.value))
       /\ RefStatus = DEPLOYED
       /\ RefOutputs.success
       /\ RefOutput(rv.value) \in DOMAIN RefOutputs.outputs)
    => /\ rv.result = PyStr(str(RefOutputs.outputs[RefOutput(rv.value)]))
       /\ rv.line = [key |-> DB_PASS,
                     text |-> <<"\"">> \o str(RefOutputs.outputs[RefOutput(rv.value)])
                              \o <<"\"">>]

\* C4: a dotted TOKEN is split on its first "."; when the target is
\* configured, probed `deployed` and its retrieved outputs hold the output
\* name, the result is the text of that output's value and the variables
\* file holds db_pass = "<value>".
C4_DependencyResolved ==
    /\ (rv.done /\ Dotted(rv.value)
          /\ configured(rv.challenges, RefChallenge(rv.value)) /\ rv.tfdir)
       => (rv.log # <<>> /\ rv.log[1] = Cmd("state list", RefChallenge(rv.value)))
    /\ C4_Resolved

\* ${x.out.x}: challenge x, output out.x, whose value is s3cr3t, while x
\* also exposes an output named out
C4_Witness ==
    /\ rv.done
    /\ rv.value = PyStr(token(X \o <<".">> \o OUT_X))
    /\ rv.out = Exited(0, ObjectDoc((OUT_X :> Entry(TRUE, TRUE, PyStr(S3CR3T)))
                                    @@ (OUT :> Entry(TRUE, TRUE, PyBool(TRUE)))), <<>>)
    /\ rv.result = PyStr(S3CR3T)
    /\ rv.line = [key |-> DB_PASS, text |-> <<"\"", "s3cr3t", "\"">>]

\* C5: a simple reference whose TOKEN is in the name-mapping table and whose
\* mapped field is in the credential set resolves to that credential, also
\* when an environment variable named TOKEN has another value.
C5_CredentialFirst ==
    (rv.done /\ Simple(rv.value)
       /\ Tok(rv.value) \in DOMAIN var_mapping
       /\ var_mapping[Tok(rv.value)] \in DOMAIN rv.creds)
    => rv.result = rv.creds[var_mapping[Tok(rv.value)]]

C5_Witness ==
    /\ rv.done
    /\ rv.value = PyStr(token(KEY))
    /\ rv.creds = ("access_key_id" :> PyStr(<<"cv">>))
    /\ KEY \in DOMAIN rv.env /\ rv.env[KEY] = <<"ev">>
    /\ rv.result = PyStr(<<"cv">>)

\* the simple reference of rv is not satisfied from the credential set
NotFromCredentials ==
    ~(Tok(rv.value) \in DOMAIN var_mapping
        /\ var_mapping[Tok(rv.value)] \in DOMAIN rv.creds)

\* C6 as stated: a simple reference not satisfied from the credential set
\* resolves to the environment variable TOKEN if that variable is present,
\* and to the original text otherwise; resolution never raises.
C6_EnvPresentResolves ==
    /\ ~rv.raised
    /\ (rv.done /\ Simple(rv.value) /\ NotFromCredentials)
       => IF Tok(rv.value) \in DOMAIN rv.env
          THEN rv.result = PyStr(rv.env[Tok(rv.value)])
          ELSE rv.result = rv.value

\* C6 amended: a simple reference not satisfied from the credential set
\* resolves to the environment variable TOKEN if that variable is present
\* and not empty, and to the original text otherwise (absent or empty);
\* resolution never raises.
C6_EnvNonEmptyResolves ==
    /\ ~rv.raised
    /\ (rv.done /\ Simple(rv.value) /\ NotFromCredentials)
       => IF Tok(rv.value) \in DOMAIN rv.env /\ rv.env[Tok(rv.value)] # <<>>
          THEN rv.result = PyStr(rv.env[Tok(rv.value)])
          ELSE rv.result = rv.value

\* ${AWS_ACCESS_KEY_ID} with no such credential and the environment
\* variable set to the empty text
C6_Witness ==
    /\ rv.done
    /\ rv.value = PyStr(token(KEY))
    /\ rv.creds = <<>>
    /\ KEY \in DOMAIN rv.env /\ rv.env[KEY] = <<>>
    /\ rv.result = rv.value

(***************************************************************************)
(* Properties of the lifecycle (Spec)                                      *)
(***************************************************************************)
\* C7: whenever destroy is called on a configured challenge and its probe
\* answers not_deployed, the call ends at once with success, no `destroy`
\* command is started, and the tracking directories, the resources and the
\* variables files are left as they were; so any number of such calls in a
\* row give the same result.
C7_DestroyAbsentNoOp ==
    [][(op'.kind = "destroy" /\ op'.probed = NOT_DEPLOYED)
       => /\ op'.pc = "done"
          /\ op'.result = "success"
          /\ ~ran(op'.log, "destroy")
          /\ UNCHANGED ext]_vars

\* destroy of a challenge whose working directory is initialised and whose
\* state lists no resource
C7_Witness ==
    /\ op.kind = "destroy" /\ op.pc = "done"
    /\ op.probed = NOT_DEPLOYED
    /\ terraform_dir[op.name]
    /\ op.log = <<Cmd("state list", op.name)>>
    /\ op.result = "success"

C10_ValidationGate ==
    (op.kind = "deploy" /\ (IF configured(Challenges, op.name)
                            THEN ~validate(op.name, Challenges[op.name],
                                           world.files[op.name])
                            ELSE TRUE))
    => (op.pc = "done" /\ op.result = "failure" /\ op.log = <<>>)

\* deploy of y with main.tf missing, the tool installed
C10_Witness ==
    /\ op.kind = "deploy" /\ op.name = Y
    /\ ~world.files[Y].main_tf
    /\ world.installed
    /\ op.result = "failure" /\ op.log = <<>>

\* the descriptor of the operation's challenge is configured and valid
Validated ==
    /\ configured(Challenges, op.name)
    /\ validate(op.name, Challenges[op.name], world.files[op.name])

\* the environment is not ready: the tool is not installed, or a required
\* credential of the provider is missing
NotReady ==
    \/ ~world.installed
    \/ ~validate_provider_credentials(world.aws_config, world.env)

\* the commands of the deploy sequence proper
DeployCommands == {"init", "apply", "output", "destroy"} \cup
                  {common_prep_scripts[i] : i \in DOMAIN common_prep_scripts}

\* C11 as stated: a deploy of a valid descriptor in an environment that is
\* not ready ends in failure, and where the tool is installed (so that a
\* command started is a process spawned) no command was started at all.
C11_ReadinessNoSubprocess ==
    (op.kind = "deploy" /\ op.pc # "env" /\ Validated /\ NotReady)
    => /\ op.pc = "done" /\ op.result = "failure"
       /\ world.installed => op.log = <<>>

\* C11 amended: a deploy of a valid descriptor in an environment that is
\* not ready ends in failure after the `terraform version` check, which is
\* the only command it starts: no init, preparation script, apply, output
\* or destroy command is started.
C11_ReadinessGate ==
    (op.kind = "deploy" /\ op.pc # "env" /\ Validated /\ NotReady)
    => /\ op.pc = "done" /\ op.result = "failure"
       /\ op.log = <<Cmd("version", <<>>)>>
       /\ \A i \in DOMAIN op.log : op.log[i].cmd \notin DeployCommands

\* the tool is installed, the credentials are missing, the deploy failed
\* after the version check
C11_Witness ==
    /\ op.kind = "deploy" /\ op.pc = "done" /\ Validated
    /\ world.installed
    /\ ~validate_provider_credentials(world.aws_config, world.env)
    /\ op.result = "failure"
    /\ op.log = <<Cmd("version", <<>>)>>

\* the events of the operation's steps, by kind of step
Steps(kinds) == {i \in DOMAIN op.trace : op.trace[i].step \in kinds}

\* step `step` succeeded before event i of the operation
OkBefore(i, step) == \E j \in 1..(i - 1) : op.trace[j].step = step /\ op.trace[j].ok

\* the preparation scripts of the operation's challenge
Detected == _detect_preparation_scripts(Challenges[op.name].directory, ScriptsPresent[op.name])

\* C12: in a deploy, init runs only after the descriptor validation and the
\* readiness check passed; a preparation script only after init succeeded;
\* the variables file is written only after init succeeded and every
\* detected script was run with success or skipped, and is followed at once
\* by apply; apply runs only right after the variables file was written;
\* the outputs are retrieved only after apply succeeded.
C12_DeployOrdering ==
    op.kind = "deploy" =>
      \A i \in DOMAIN op.trace :
        LET e == op.trace[i]
        IN /\ e.step = "init" => OkBefore(i, "validate") /\ OkBefore(i, "env")
           /\ e.step \in {"script", "skip", "prompt"} => OkBefore(i, "init")
           /\ e.step = "tfvars" =>
                /\ OkBefore(i, "init")
                /\ \A j \in 1..(i - 1) : op.trace[j].ok
                /\ Cardinality({j \in 1..(i - 1) : op.trace[j].step \in {"script", "skip"}})
                     = Len(Detected)
                /\ \A j \in 1..(i - 1) : op.trace[j].step # "apply"
                /\ i < Len(op.trace) /\ op.trace[i + 1].step = "apply"
           /\ e.step = "apply" => i > 1 /\ op.trace[i - 1].step = "tfvars"
           /\ e.step = "output" => OkBefore(i, "apply")

\* a deploy of the challenge with a preparation script that ran every step
C12_Witness ==
    /\ op.kind = "deploy" /\ op.pc = "done" /\ op.result = "success"
    /\ Steps({"script"}) # {} /\ Steps({"output"}) # {}
    /\ Len(op.trace) = 8

\* C13: when init, a preparation script or apply fails in a deploy, the
\* failing step is the last step of the operation, the operation reports
\* failure, and no destroy command is started.
C13_FailureHalts ==
    op.kind = "deploy" =>
      /\ \A i \in Steps({"init", "script", "apply"}) :
           ~op.trace[i].ok => /\ i = Len(op.trace)
                              /\ op.pc = "done" /\ op.result = "failure"
      /\ ~ran(op.log, "destroy")

\* apply failed after init succeeded and left resources behind; the
\* working directory stays initialised and nothing was destroyed
C13_Witness ==
    /\ op.kind = "deploy" /\ op.pc = "done" /\ op.result = "failure"
    /\ op.trace[Len(op.trace)].step = "apply"
    /\ op.trace[Len(op.trace)].kind = "exit"
    /\ terraform_dir[op.name]
    /\ resources[op.name] > 0
    /\ ~ran(op.log, "destroy")

\* C14 as stated: a deploy reports success only if init, every confirmed
\* preparation script, apply and the final retrieval of the outputs all
\* succeeded.
C14_SuccessAllSteps ==
    (op.kind = "deploy" /\ op.pc = "done" /\ op.result = "success")
    => \A i \in Steps({"init", "script", "apply", "output"}) : op.trace[i].ok

\* C14 amended: a deploy reports success only if init, every confirmed
\* preparation script and apply succeeded; and once apply succeeded it
\* reports success whether or not the retrieval of the outputs succeeded.
C14_SuccessThroughApply ==
    (op.kind = "deploy" /\ op.pc = "done")
    => /\ op.result = "success"
            => /\ \A i \in Steps({"init", "script", "apply"}) : op.trace[i].ok
               /\ Steps({"init"}) # {} /\ Steps({"apply"}) # {}
       /\ (\E i \in Steps({"apply"}) : op.trace[i].ok) => op.result = "success"

\* a deploy that reports success although `terraform output` timed out
C14_Witness ==
    /\ op.kind = "deploy" /\ op.pc = "done" /\ op.result = "success"
    /\ op.trace[Len(op.trace)] = Ev("output", FALSE, "timeout", 600)

\* the batch returned a result (it was not left by an interrupt or error)
Returned(kind) ==
    batch.kind = kind /\ batch.pc = "done" /\ batch.result \in {"success", "failure"}

\* the commands started by the batch so far, those of the call in
\* progress included
BatchLog ==
    batch.log \o (IF batch.pc = "running" /\ batch.phase = "wait" THEN op.log ELSE <<>>)

\* the configured challenges, in the order of the configuration, that
\* satisfy a condition given as a set
InOrder(S) ==
    LET member(c) == c \in S
    IN SelectSeq(ChallengeOrder, member)

\* C15: when deploy-by-provider returns, it has attempted one deploy for
\* each configured challenge of the provider, in order and once each,
\* failed deploys included; it reports success exactly when every one of
\* them succeeded and there was at least one, and failure when none matches.
C15_DeployProviderTally ==
    /\ batch.kind = "deploy_provider" =>
         /\ batch.formed = InOrder({c \in Configured : Challenges[c].provider = batch.provider})
         /\ batch.attempted = SubSeq(batch.formed, 1, Len(batch.attempted))
         /\ Len(batch.results) \in {Len(batch.attempted), Len(batch.attempted) - 1}
    /\ Returned("deploy_provider") =>
         /\ batch.attempted = batch.formed
         /\ Len(batch.results) = Len(batch.formed)
         /\ batch.result = "success"
              <=> /\ batch.formed # <<>>
                  /\ \A i \in DOMAIN batch.results : batch.results[i] = "success"

\* the aws batch: the first deploy failed, the second was attempted and
\* succeeded, the batch reports failure
C15_Witness ==
    /\ Returned("deploy_provider") /\ batch.provider = "aws"
    /\ batch.attempted = <<X, Y>>
    /\ batch.results = <<"failure", "success">>
    /\ batch.result = "failure"

ExplicitYes == {<<"y", "e", "s">>, <<"Y", "E", "S">>}

\* C17: when destroy-all asks (something is deployed, auto-approve is not
\* set) and the answer is not an explicit yes, no destroy command is
\* started and the result is failure; and a destroy command of destroy-all
\* is started only with auto-approve set or after an explicit yes.
C17_ConfirmationGate ==
    batch.kind = "destroy_all" =>
      /\ batch.prompted <=> (batch.formed # <<>> /\ ~batch.auto)
      /\ (batch.prompted /\ batch.answer \notin ExplicitYes) =>
           /\ batch.pc = "done"
           /\ batch.answer # INTERRUPT => batch.result = "failure"
           /\ batch.attempted = <<>>
           /\ \A i \in DOMAIN BatchLog : BatchLog[i].cmd # "destroy"
      /\ (\E i \in DOMAIN BatchLog : BatchLog[i].cmd = "destroy") =>
           batch.auto \/ (batch.prompted /\ batch.answer \in ExplicitYes)

\* two deployed challenges, the answer "no"
C17_Witness ==
    /\ batch.kind = "destroy_all" /\ batch.pc = "done"
    /\ ~batch.auto /\ batch.prompted
    /\ batch.formed = <<X, Y>>
    /\ batch.answer = <<"n", "o">>
    /\ batch.result = "failure"
    /\ resources[X] > 0 /\ resources[Y] > 0

\* C18: every apply and every destroy command is given a timeout of 2400
\* seconds when the challenge is named challenge-04-aws-only and of 1200
\* seconds otherwise, with or without auto-approve.
C18_HeavyweightTimeout ==
    \A i \in DOMAIN op.trace :
      (op.trace[i].step \in {"apply", "destroy"} /\ op.trace[i].kind # "none")
      => op.trace[i].timeout = IF op.name = <<"challenge-04-aws-only">> THEN 2400 ELSE 1200

\* apply with auto-approve on challenge-04-aws-only
C18_Witness ==
    /\ op.kind = "deploy" /\ op.auto
    /\ op.name = <<"challenge-04-aws-only">>
    /\ \E i \in DOMAIN op.trace :
         op.trace[i].step = "apply" /\ op.trace[i].timeout = 2400

\* a timed-out command is reported as failed, with a text of its own
TimeoutReported ==
    LET timed == _run_terraform_command(TimedOut)
        failed == _run_terraform_command(Exited(1, <<>>, <<"Error">>))
    IN /\ ~timed.success /\ ~failed.success
       /\ timed.stderr = <<"Command timed out">>
       /\ timed.stderr # failed.stderr
       /\ get_outputs(TRUE, TimedOut).success = get_outputs(TRUE, Exited(1, EmptyDoc, <<"Error">>)).success

\* the events of commands that timed out
TimedOutSteps(kinds) == {i \in Steps(kinds) : op.trace[i].kind = "timeout"}

OnceCommands == {"init", "apply", "destroy"} \cup
                {common_prep_scripts[i] : i \in DOMAIN common_prep_scripts}

\* C20: within one deploy or destroy of a challenge, each of init, apply,
\* destroy and each preparation script is started at most once in the
\* challenge's working directory, each of the steps init, apply, destroy
\* and the retrieval of the outputs is taken at most once, and a command
\* that failed or timed out is the operation's last step.
C20_NoRetry ==
    op.kind \in {"deploy", "destroy"} =>
      /\ \A cmd \in OnceCommands :
           Cardinality({i \in DOMAIN op.log : op.log[i] = Cmd(cmd, op.name)}) <= 1
      /\ \A step \in {"init", "apply", "destroy", "output"} :
           Cardinality(Steps({step})) <= 1
      /\ \A i \in Steps({"init", "script", "apply", "destroy", "output"}) :
           ~op.trace[i].ok => i = Len(op.trace) /\ op.pc = "done"

\* a destroy that timed out and was not run again
C20_Witness ==
    /\ op.kind = "destroy" /\ op.pc = "done" /\ op.result = "failure"
    /\ op.trace[Len(op.trace)].step = "destroy"
    /\ op.trace[Len(op.trace)].kind = "timeout"
    /\ Cardinality({i \in DOMAIN op.log : op.log[i].cmd = "destroy"}) = 1

\* the marks of every command the running program has started so far
Calls ==
    IF batch.kind = "none" THEN op.calls
    ELSE batch.calls \o (IF batch.pc = "running" /\ batch.phase = "wait" THEN op.calls ELSE <<>>)

\* the commands the running program has started so far
Log == IF batch.kind = "none" THEN op.log ELSE BatchLog

\* the number of subprocesses running after the first k marks
Running(calls, k) ==
    Cardinality({i \in 1..k : calls[i].ev = "start"})
    - Cardinality({i \in 1..k : calls[i].ev = "end"})

\* C21: at every moment at most one subprocess started by the program is
\* running; every command is started after the one before it has ended,
\* over the challenges of a batch and the dependency lookups too.
C21_OneSubprocess ==
    /\ \A k \in 1..Len(Calls) : Running(Calls, k) \in {0, 1}
    /\ Len(Calls) = 2 * Len(Log)
    /\ \A i \in 1..Len(Log) :
         /\ Calls[2 * i - 1] = [ev |-> "start", cmd |-> Log[i]]
         /\ Calls[2 * i] = [ev |-> "end", cmd |-> Log[i]]

\* the second deploy of a batch, after a dependency lookup that got no answer
\* and the apply that followed it
C21_Witness ==
    /\ batch.kind = "deploy_provider" /\ batch.pc = "running" /\ batch.phase = "wait"
    /\ Len(batch.attempted) = 2 /\ batch.calls # <<>>
    /\ op.name = Y /\ ran(op.log, "apply")
    /\ \E i \in DOMAIN op.log : op.log[i] = Cmd("state list", X)
    /\ ~(\E i \in DOMAIN op.log : op.log[i] = Cmd("output", X))
    /\ tfvars[Y].exists /\ tfvars[Y].lines[1].text = <<"\"">> \o token(X \o <<".">> \o OUT) \o <<"\"">>
    /\ resources[X] > 0

\* the status a probe of challenge c gives when the tool answers
Status(c) ==
    get_status_from_terraform_state(Challenges[c].directory, terraform_dir[c],
                                    Exited(0, listing(resources[c]), <<>>)).status

\* the commands a step added to the log of the operation
Added == SubSeq(op'.log, Len(op.log) + 1, Len(op'.log))

\* C22: a deploy leaves every other challenge as it was (initialisation,
\* resources, variables file, probed status) and starts only `state list`
\* and `output` in another challenge's working directory; the commands
\* started while the variables file is generated, those of a reference to
\* the challenge itself included, are `state list` and `output` only.
C22_LookupNoSideEffects ==
    [][op'.kind = "deploy" =>
         /\ \A c \in Configured \ {op'.name} :
              /\ terraform_dir'[c] = terraform_dir[c]
              /\ resources'[c] = resources[c]
              /\ tfvars'[c] = tfvars[c]
              /\ Status(c)' = Status(c)
              /\ \A i \in DOMAIN op'.log :
                   op'.log[i].name = c => op'.log[i].cmd \in {"state list", "output"}
         /\ (op.kind = "deploy" /\ op.pc = "apply") =>
              \A i \in 1..(Len(Added) - 1) : Added[i].cmd \in {"state list", "output"}]_vars

\* a deploy of x resolved its reference to the output of y, and y is as
\* it was: deployed, with its own variables file
C22_Witness ==
    /\ op.kind = "deploy" /\ op.name = X /\ op.pc = "done" /\ op.result = "success"
    /\ \E i \in DOMAIN op.log : op.log[i] = Cmd("output", Y)
    /\ tfvars[X].exists /\ tfvars[X].lines[1].text = <<"\"">> \o S3CR3T \o <<"\"">>
    /\ tfvars[Y].exists /\ Status(Y) = DEPLOYED

\* the number of declared variables of challenge c that refer to an output
\* of challenge target
Refs(c, target) ==
    Cardinality({i \in DOMAIN Challenges[c].variables :
                   Challenges[c].variables[i].value = ref(target)})

\* how often the operation started command cmd in the directory of c
Count(cmd, c) == Cardinality({i \in DOMAIN op.log : op.log[i] = Cmd(cmd, c)})

\* C23: generating the variables file of a challenge ends with one line
\* per declared variable; a deploy starts at most one `state list` and one
\* `output` per reference, in the directory of the referenced challenge
\* only (its own final `terraform output` apart), also when the challenges
\* refer to each other or to themselves.
C23_SingleHop ==
    op.kind = "deploy" =>
      /\ op.pc = "apply" =>
           /\ get_terraform_variables_file_content(op.name) # {}
           /\ \A content \in get_terraform_variables_file_content(op.name) :
                Len(content.lines) = Len(Challenges[op.name].variables)
      /\ \A c \in Configured :
           /\ Count("state list", c) <= Refs(op.name, c)
           /\ Count("output", c) <= Refs(op.name, c)
                + (IF c = op.name /\ Steps({"output"}) # {} THEN 1 ELSE 0)

\* a deploy of y, which refers to x and to itself while x refers to y:
\* both lookups ran, each once
C23_Witness ==
    /\ op.kind = "deploy" /\ op.name = Y /\ ran(op.log, "apply")
    /\ Count("state list", X) = 1 /\ Count("output", X) = 1
    /\ Count("state list", Y) = 1 /\ Count("output", Y) >= 1
    /\ Refs(X, Y) = 1 /\ Refs(Y, X) = 1 /\ Refs(Y, Y) = 1

\* a deploy that wrote its variables file
Wrote == op.kind = "deploy" /\ \E i \in Steps({"tfvars"}) : op.trace[i].ok

\* the text expected for a declared value: a string in double quotes,
\* resolved to the output "s3cr3t" or kept as declared
Rendered(value, text) ==
    CASE value.t = "str" -> text \in {<<"\"">> \o S3CR3T \o <<"\"">>,
                                      <<"\"">> \o value.s \o <<"\"">>}
      [] value.t = "bool" -> text = (IF value.n = 1 THEN <<"t", "r", "u", "e">>
                                     ELSE <<"f", "a", "l", "s", "e">>)
      [] value.t = "int" -> text = <<ToString(value.n)>>
      [] OTHER -> text = <<"\"", "None", "\"">>

\* C24: the variables file a deploy wrote has one assignment per declared
\* variable, in the order of the declaration: a string in double quotes,
\* a boolean as true or false without quotes, an integer without quotes,
\* any other value as its string form in double quotes.
C24_Serialization ==
    Wrote =>
      LET variables == Challenges[op.name].variables
          lines == tfvars[op.name].lines
      IN /\ tfvars[op.name].exists
         /\ Len(lines) = Len(variables)
         /\ \A i \in DOMAIN variables :
              /\ lines[i].key = variables[i].name
              /\ Rendered(variables[i].value, lines[i].text)

\* the variables file of x: a resolved string, a boolean, an integer and a
\* value of another type
C24_Witness ==
    /\ Wrote /\ op.name = X
    /\ tfvars[X].lines =
         <<[key |-> PEER, text |-> <<"\"">> \o S3CR3T \o <<"\"">>],
           [key |-> ACTIVE, text |-> <<"t", "r", "u", "e">>],
           [key |-> COUNT, text |-> <<"3">>],
           [key |-> NOTE, text |-> <<"\"", "None", "\"">>]>>

\* C25 as stated: whenever a deploy starts apply with a variables file, the
\* file was written anew earlier in that deploy.
C25_FreshVariablesFile ==
    op.kind = "deploy" =>
      \A i \in Steps({"apply"}) :
        op.var_file = "passed" =>
          i > 1 /\ op.trace[i - 1].step = "tfvars" /\ op.trace[i - 1].ok

\* C26: a destroy leaves every variables file as it is, starts no command
\* but its own probe and `terraform destroy`, both in its own working
\* directory, and passes the variables file to the tool exactly when the
\* file exists.
C26_DestroyKeepsVariablesFile ==
    [][op'.kind = "destroy" =>
         /\ tfvars' = tfvars
         /\ \A i \in DOMAIN op'.log :
              op'.log[i] \in {Cmd("state list", op'.name), Cmd("destroy", op'.name)}
         /\ ran(op'.log, "destroy") <=> op'.var_file # "none"
         /\ op'.var_file = "passed" => tfvars[op'.name].exists
         /\ op'.var_file = "omitted" => ~tfvars[op'.name].exists]_vars

\* a destroy that ran with the variables file an earlier deploy wrote,
\* lines that refer to another challenge included
C26_Witness ==
    /\ op.kind = "destroy" /\ op.name = Y /\ op.pc = "done" /\ op.result = "success"
    /\ ran(op.log, "destroy") /\ op.var_file = "passed"
    /\ tfvars[Y].exists /\ Len(tfvars[Y].lines) = 1
    /\ op.log = <<Cmd("state list", Y), Cmd("destroy", Y)>>

\* the last step of the operation
LastStep == op.trace[Len(op.trace)]

\* C27: a deploy whose apply succeeded and created a resource leaves the
\* challenge probed deployed; a destroy whose destroy command succeeded
\* leaves it probed not_deployed; a failed apply or destroy that changed no
\* resource leaves the probed status as it was.
C27_RoundTrip ==
    /\ []((op.kind = "deploy" /\ (\E i \in Steps({"apply"}) : op.trace[i].ok)
                              /\ resources[op.name] > 0)
            => Status(op.name) = DEPLOYED)
    /\ []((op.kind = "destroy" /\ (\E i \in Steps({"destroy"}) : op.trace[i].ok))
            => Status(op.name) = NOT_DEPLOYED)
    /\ [][(/\ op.pc \in {"apply", "destroy"}
           /\ op'.pc = "done" /\ op'.result = "failure"
           /\ resources' = resources)
          => Status(op.name)' = Status(op.name)]_vars

\* the destroy command succeeded on a challenge an earlier deploy had
\* applied: it was probed deployed and is now not_deployed
C27_Witness ==
    /\ op.kind = "destroy" /\ op.pc = "done" /\ op.result = "success"
    /\ op.probed = DEPLOYED
    /\ LastStep.step = "destroy" /\ LastStep.ok
    /\ tfvars[op.name].exists /\ terraform_dir[op.name]
    /\ Status(op.name) = NOT_DEPLOYED

\* the order in which preparation scripts are considered
FixedOrder == <<"install_dependencies.sh", "setup.sh", "prepare.sh", "build.sh">>

\* the place of a preparation script in that order
Position(script) == CHOOSE i \in DOMAIN FixedOrder : FixedOrder[i] = script

\* the preparation scripts the operation has started, in the order started
ScriptsRun ==
    LET isScript(c) == \E i \in DOMAIN FixedOrder : c.cmd = FixedOrder[i]
    IN SelectSeq(op.log, isScript)

\* C28: the preparation scripts a deploy runs are present in its working
\* directory and run in the fixed order, each at most once; a script is
\* started only in answer to its own prompt, by an answer that is empty,
\* y or yes once stripped and lowered, and it is the first script not yet
\* considered.
C28_ScriptsConfirmedInOrder ==
    /\ [](op.kind = "deploy" =>
            /\ \A i \in DOMAIN ScriptsRun :
                 /\ ScriptsRun[i].cmd \in ScriptsPresent[op.name]
                 /\ ScriptsRun[i].name = op.name
            /\ \A i, j \in DOMAIN ScriptsRun :
                 i < j => Position(ScriptsRun[i].cmd) < Position(ScriptsRun[j].cmd)
            /\ Cardinality(Steps({"script", "skip", "prompt"}))
                 <= Cardinality(ScriptsPresent[op.name]))
    /\ [][\A i \in DOMAIN Added :
            (\E k \in DOMAIN FixedOrder : Added[i].cmd = FixedOrder[k]) =>
              /\ op.kind = "deploy" /\ op.pc = "prep" /\ Len(Added) = 1
              /\ Added[i] = Cmd(Head(op.scripts), op.name)
              /\ op'.answer.script = Added[i].cmd
              /\ lower(strip(op'.answer.response)) \in {<<>>, <<"y">>, <<"y", "e", "s">>}
              /\ \A s \in ScriptsPresent[op.name] :
                   Position(s) < Position(Added[i].cmd) =>
                     s \notin {op.scripts[m] : m \in DOMAIN op.scripts}]_vars

\* setup.sh was declined and build.sh, next in the order, ran on " YES"
C28_Witness ==
    /\ op.kind = "deploy" /\ op.name = Y
    /\ ScriptsRun = <<Cmd("build.sh", Y)>>
    /\ Steps({"skip"}) # {}
    /\ op.answer = [script |-> "build.sh", response |-> <<" ", "Y", "E", "S">>]

\* C29: a preparation script that exits non-zero or times out is the last
\* step of the deploy, which returns failure without another prompt and
\* without apply; after a declined script the deploy goes on to the next
\* script or to apply.
C29_ScriptFailureAborts ==
    op.kind = "deploy" =>
      /\ \A i \in Steps({"script"}) :
           ~op.trace[i].ok =>
             /\ i = Len(op.trace)
             /\ op.pc = "done" /\ op.result = "failure"
             /\ ~ran(op.log, "apply")
             /\ op.answer.script = op.log[Len(op.log)].cmd
      /\ \A i \in Steps({"skip"}) :
           IF i = Len(op.trace)
           THEN op.pc = (IF op.scripts = <<>> THEN "apply" ELSE "prep")
           ELSE op.trace[i + 1].step \in {"script", "skip", "prompt", "tfvars"}

\* setup.sh timed out: build.sh was never offered and nothing was applied
C29_Witness ==
    /\ op.kind = "deploy" /\ op.name = Y /\ op.pc = "done" /\ op.result = "failure"
    /\ LastStep.step = "script" /\ LastStep.kind = "timeout"
    /\ ScriptsRun = <<Cmd("setup.sh", Y)>>
    /\ op.scripts = <<"setup.sh", "build.sh">>
    /\ ~ran(op.log, "apply")

\* C30 as stated: an interrupt at the prompt of a preparation script skips
\* the script and the deploy goes on; an interrupt at the prompt of
\* destroy-all cancels the batch as a declined confirmation does; neither
\* leaves the operation as an exception.
C30_InterruptDeclines ==
    /\ (op.kind = "deploy" /\ op.answer.response = INTERRUPT) =>
         /\ op.result # "interrupted"
         /\ LastStep.step # "prompt"
    /\ (batch.kind = "destroy_all" /\ batch.answer = INTERRUPT) =>
         /\ batch.result = "failure"
    /\ batch.result # "interrupted"

\* C30: an interrupt at the prompt of a preparation script leaves the
\* deploy at once as KeyboardInterrupt: the script is not run, no later
\* script is offered, apply is not started, and a batch around the deploy
\* ends with it; an interrupt at the prompt of destroy-all leaves the
\* batch the same way, with no destroy started.  Nothing else interrupts.
C30_InterruptAborts ==
    /\ (op.kind = "deploy" /\ op.answer.response = INTERRUPT) =>
         /\ op.pc = "done" /\ op.result = "interrupted"
         /\ LastStep = Ev("prompt", FALSE, "none", 0)
         /\ \A i \in DOMAIN op.log : op.log[i].cmd # op.answer.script
         /\ ~ran(op.log, "apply")
         /\ op.scripts # <<>> /\ Head(op.scripts) = op.answer.script
    /\ op.result = "interrupted" => (op.kind = "deploy" /\ op.answer.response = INTERRUPT)
    /\ (batch.kind = "destroy_all" /\ batch.answer = INTERRUPT) =>
         /\ batch.pc = "done" /\ batch.result = "interrupted"
         /\ batch.attempted = <<>>
         /\ ~ran(batch.log, "destroy")
    /\ batch.result = "interrupted" =>
         /\ batch.pc = "done"
         /\ \/ batch.kind = "destroy_all" /\ batch.answer = INTERRUPT
            \/ batch.kind = "deploy_provider" /\ op.result = "interrupted"

\* a deploy-by-provider batch left by an interrupt at the prompt of the
\* preparation script of its second challenge
C30_Witness ==
    /\ batch.kind = "deploy_provider" /\ batch.pc = "done" /\ batch.result = "interrupted"
    /\ batch.attempted = <<X, Y>>
    /\ op.name = Y /\ op.result = "interrupted"
    /\ op.answer = [script |-> "setup.sh", response |-> INTERRUPT]

\* C40: the two state probes agree: for the same working directory, the
\* same .terraform presence and the same `state list` outcome, the prober
\* returns deployed exactly when the state information gives a resource
\* count greater than zero.
C40_ProbesAgree ==
    probe.done /\ probe.status # "none" =>
        ((probe.status = DEPLOYED) <=> probe.deployed)

\* both probes ran `state list` on an output of blank lines followed by a
\* resource, and both report it
C40_Witness ==
    /\ probe.done /\ probe.calls = 1 /\ probe.listed = 1
    /\ probe.o.kind = "exit" /\ probe.o.code = 0
    /\ Len(probe.o.stdout) >= 2 /\ probe.o.stdout[1] = "\n"
    /\ probe.status = DEPLOYED /\ probe.deployed

\* what get_outputs returned to the resolution that ran `terraform output`
Got == get_outputs(TRUE, rv.out)

\* C38: whenever the retrieval of the outputs in JSON format reports
\* success, every key of the returned mapping is an output name the tool
\* reported and its value is that output's `value` field; on a non-zero
\* exit, a timeout or malformed JSON it reports failure with an empty
\* mapping.
C38_OutputsAreExposed ==
    rv.done /\ ran(rv.log, "output") =>
        /\ Got.success =>
              /\ rv.out.kind = "exit" /\ rv.out.stdout.kind = "object"
              /\ \A k \in DOMAIN Got.outputs :
                    /\ k \in DOMAIN rv.out.stdout.entries
                    /\ rv.out.stdout.entries[k].hasValue
                    /\ Got.outputs[k] = rv.out.stdout.entries[k].value
        /\ (rv.out.kind # "exit" \/ rv.out.code # 0 \/ rv.out.stdout.kind = "malformed") =>
              ~Got.success /\ Got.outputs = <<>>

\* the provider a canonical name of var_mapping designates by its prefix
Designated ==
    [name \in DOMAIN var_mapping |->
       CASE name \in {<<"AWS_ACCESS_KEY_ID">>, <<"AWS_SECRET_ACCESS_KEY">>} -> "aws"
         [] name \in {<<"GCP_PROJECT_ID">>, <<"GCP_REGION">>, <<"GCP_USER_EMAIL">>} -> "gcp"
         [] OTHER -> "azure"]

\* C36: a simple reference is resolved from a credential only of the
\* provider its name designates: in a challenge of provider aws, a token
\* with the prefix of another provider never resolves to a field of the
\* aws credentials.
C36_OwnProviderOnly ==
    \A name \in DOMAIN var_mapping :
        (rv.done /\ rv.value = PyStr(token(name)) /\ Designated[name] # "aws") =>
            ~(/\ var_mapping[name] \in DOMAIN rv.creds
              /\ rv.result = rv.creds[var_mapping[name]])

\* the value an assignment of terraform.tfvars carries: the text between
\* the quotes of a string, the literal otherwise
Unquoted(text) ==
    IF Len(text) >= 2 /\ text[1] = "\"" /\ text[Len(text)] = "\""
    THEN SubSeq(text, 2, Len(text) - 1) ELSE text

\* C35: the two injection channels agree: a declared variable that gets
\* both an entry TF_VAR_<name> in the environment of the apply and an
\* assignment in the generated variables file carries the same value in
\* both.
C35_ChannelsAgree ==
    (rv.done /\ ~rv.raised /\ rv.tf_var.set) =>
        rv.tf_var.text = Unquoted(rv.line.text)

\* the environment variable that corresponds to a credential field
EnvOf ==
    ("profile" :> <<"AWS_PROFILE">>) @@ ("access_key_id" :> <<"AWS_ACCESS_KEY_ID">>) @@
    ("subscription_id" :> <<"AZURE_SUBSCRIPTION_ID">>) @@
    ("tenant_id" :> <<"AZURE_TENANT_ID">>) @@
    ("project_id" :> <<"GCP_PROJECT_ID">>) @@ ("user_email" :> <<"GCP_USER_EMAIL">>)

\* the fields a CLI session can supply
CliFields == {"subscription_id", "tenant_id", "project_id", "user_email"}

InConfig(f) == f \in DOMAIN call.config /\ truthy(call.config[f])
InEnv(f) == EnvOf[f] \in DOMAIN call.env /\ call.env[EnvOf[f]] # <<>>

\* C31: credential layering: for every credential field of every provider
\* a value present in credentials.yaml takes precedence over the
\* environment variable, the environment variable is used when the file
\* has no value, and the CLI session is queried only when neither of the
\* two supplies a value.
C31_Layering ==
    call.done /\ call.provider \in {"aws", "azure", "gcp"} =>
        /\ \A f \in DOMAIN EnvOf :
              /\ InConfig(f) =>
                    f \in DOMAIN call.credentials /\ call.credentials[f] = call.config[f]
              /\ (~InConfig(f) /\ InEnv(f)) =>
                    /\ f \in DOMAIN call.credentials
                    /\ call.credentials[f] = PyStr(call.env[EnvOf[f]])
        /\ call.calls > 0 =>
              \E f \in CliFields \cap ConfigFields[call.provider] :
                  ~InConfig(f) /\ ~InEnv(f)

\* credentials.yaml or the environment gives a non-empty value
Supplied(field, name) ==
    \/ field \in DOMAIN world.aws_config /\ truthy(world.aws_config[field])
    \/ name \in DOMAIN world.env /\ world.env[name] # <<>>

\* C37: for provider aws the credential check reports a missing
\* credential, and the deploy is refused at the environment gate, whenever
\* neither a profile nor the pair of access key id and secret access key
\* is supplied by credentials.yaml or the environment: no init is started.
C37_AwsCredentialsRequired ==
    (/\ op.kind = "deploy"
     /\ configured(Challenges, op.name) /\ Challenges[op.name].provider = "aws"
     /\ ~Supplied("profile", <<"AWS_PROFILE">>)
     /\ ~(/\ Supplied("access_key_id", <<"AWS_ACCESS_KEY_ID">>)
          /\ Supplied("secret_access_key", <<"AWS_SECRET_ACCESS_KEY">>)))
    => (/\ ~ran(op.log, "init")
        /\ ~validate_provider_credentials(world.aws_config, world.env))

\* C32: validate reports the descriptor valid exactly when name, provider,
\* directory and backend-config path are all set, the provider is one of
\* aws, azure and gcp, the working directory and the backend-config file
\* exist, the working directory holds main.tf, and the web-content path,
\* if declared, exists; otherwise it reports invalid with at least one
\* error.
C32_ValidityPredicate ==
    call.done =>
        /\ call.is_valid <=>
              /\ call.name # <<>> /\ call.d.provider # ""
              /\ call.d.directory /\ call.d.backend_config
              /\ call.d.provider \in {"aws", "azure", "gcp"}
              /\ call.f.dir /\ call.f.backend /\ call.f.main_tf
              /\ call.d.web_content => call.f.web
        /\ ~call.is_valid => call.errors # {}

\* a descriptor that declares web content is found valid
C32_Witness ==
    /\ call.done
    /\ call.is_valid /\ call.d.web_content /\ call.f.web /\ call.f.main_tf

\* C33: an apply or destroy command issued without auto-approve runs with
\* the terminal inherited and no capture, and when the process exits it
\* succeeds exactly when the exit code is zero and returns no text; every
\* other command (apply or destroy with auto-approve, init, plan, output)
\* runs captured and returns the stdout and stderr of the process.
C33_InteractiveOrCaptured ==
    call.done =>
        IF call.command \in {"apply", "destroy"} /\ ~call.auto_approve
        THEN /\ call.mode = "interactive"
             /\ call.o.kind = "exit" =>
                   /\ call.success <=> call.o.code = 0
                   /\ call.stdout = <<>> /\ call.stderr = <<>>
        ELSE /\ call.mode = "captured"
             /\ call.o.kind = "exit" =>
                   /\ call.success <=> call.o.code = 0
                   /\ call.stdout = call.o.stdout /\ call.stderr = call.o.stderr

\* an apply with -auto-approve fails and its error text is returned
C33_Witness ==
    /\ call.done /\ call.command = "apply" /\ call.auto_approve
    /\ call.o.kind = "exit" /\ call.o.code = 1 /\ call.o.stderr # <<>>
    /\ call.mode = "captured" /\ call.stderr = call.o.stderr

\* C39: every destroy subprocess of destroy-all carries -auto-approve and
\* runs captured, whether the batch was started with auto-approve or was
\* confirmed at its prompt: the tool never asks the operator again.
C39_DestroyAllAutoApproved ==
    (batch.kind = "destroy_all" /\ op.kind = "destroy") =>
        /\ op.auto
        /\ ran(op.log, "destroy") => op.mode = "captured"

\* a batch confirmed at the prompt has run a destroy, captured
C39_Witness ==
    /\ batch.kind = "destroy_all" /\ ~batch.auto /\ batch.prompted
    /\ op.kind = "destroy" /\ ran(op.log, "destroy")
    /\ op.auto /\ op.mode = "captured"

\* C34: whenever a destroy of a challenge returns success, the state of
\* the tool holds no resources of that challenge afterwards, after any
\* sequence of deploys, destroys and removals of the working files.
C34_DestroyedMeansEmpty ==
    (op.kind = "destroy" /\ op.pc = "done" /\ op.result = "success") =>
        resources[op.name] = 0

====
